---- MODULE Spec2Model ----
(***************************************************************************)
(* Model of the smart-schema code-generation engine                        *)
(* (src/lib/code-generator.ts): the type mapping tables, the three         *)
(* emitters and the aggregator, driven by a caller that holds one schema   *)
(* value and invokes the emitters on it; of the scripts view that displays *)
(* their output (ScriptsBuilder); and of the API routes that store the     *)
(* generated schemas as projects of the signed-in user.                    *)
(*                                                                         *)
(* Strings are TLA+ strings; the emitted artifacts are built with the      *)
(* same concatenations as the template literals of the source.  A value    *)
(* that may be something else than a string at run time (an optional       *)
(* field, the result of a property lookup) is a record                     *)
(* [type, str]: its JavaScript type and its String() conversion.           *)
(***************************************************************************)
EXTENDS Integers, Sequences, FiniteSets

VARIABLES
    schema,     \* the GeneratedSchema value the caller holds and passes in
    out,        \* the value returned by the last emitter call
    first,      \* history: the first generateAllCodeFormats call (SpecDet)
    selectedTab,     \* scripts view: the format tab selected
    selectedDialect, \* scripts view: the SQL dialect selected
    rendered,        \* scripts view: what the last render displayed
    prismaCode,      \* history: the first Prisma text the view displayed
    projects,        \* the "projects" collection: a set of documents
    nextObjectId,    \* the number of the next _id the collection assigns
    response,        \* the answer of the last API request
    aiCall,          \* the call of generateSchemaWithAI in progress
    chat,            \* a chat panel: its component state and the browser storage
    page             \* the Home page: selection, schema and fetches in flight

engineVars == <<schema, out, first>>

viewVars == <<selectedTab, selectedDialect, rendered, prismaCode>>

apiVars == <<projects, nextObjectId, response>>

appVars == <<aiCall, chat, page>>

vars == <<schema, out, first, selectedTab, selectedDialect, rendered, prismaCode,
          projects, nextObjectId, response, aiCall, chat, page>>

(***************************************************************************)
(* Bounds of the input space.                                              *)
(***************************************************************************)
MaxTables == 2
MaxColumns == 3

(***************************************************************************)
(* JavaScript values.                                                      *)
(***************************************************************************)
Str(s) == [type |-> "string", str |-> s]
Bool(b) == [type |-> "boolean", str |-> IF b THEN "true" ELSE "false"]
Undefined == [type |-> "undefined", str |-> "undefined"]

\* ToBoolean: undefined, false and the empty string are falsy.
Truthy(v) ==
    CASE v.type = "undefined" -> FALSE
      [] v.type = "boolean" -> v.str = "true"
      [] v.type = "string" -> v.str # ""
      [] OTHER -> TRUE

\* String(v), as applied by a template literal or by += on a string.
JsString(v) == v.str

\* Object.prototype, which every object literal inherits from: the members
\* the model distinguishes, with their String() conversion.
ObjectPrototype ==
    [k \in {"constructor", "__proto__"} |->
        IF k = "constructor"
            THEN [type |-> "function", str |-> "function Object() { [native code] }"]
            ELSE [type |-> "object", str |-> "[object Object]"]]

\* obj[key] for an object literal with string-valued own properties.
GetProp(obj, key) ==
    IF key \in DOMAIN obj THEN Str(obj[key])
    ELSE IF key \in DOMAIN ObjectPrototype THEN ObjectPrototype[key]
    ELSE Undefined

(***************************************************************************)
(* Type mapping tables.                                                    *)
(***************************************************************************)
LogicalTypes ==
    {"string", "integer", "boolean", "timestamp", "decimal", "json", "text", "uuid"}

Dialects == {"postgresql", "mysql", "sqlite"}

prismaTypeMap ==
    [t \in LogicalTypes |->
        CASE t = "string" -> "String"
          [] t = "integer" -> "Int"
          [] t = "boolean" -> "Boolean"
          [] t = "timestamp" -> "DateTime"
          [] t = "decimal" -> "Decimal"
          [] t = "json" -> "Json"
          [] t = "text" -> "String"
          [] t = "uuid" -> "String"]

sqlTypeMap ==
    [d \in Dialects |->
        [t \in LogicalTypes |->
            CASE d = "postgresql" ->
                    (CASE t = "string" -> "VARCHAR(255)"
                       [] t = "integer" -> "INTEGER"
                       [] t = "boolean" -> "BOOLEAN"
                       [] t = "timestamp" -> "TIMESTAMP DEFAULT CURRENT_TIMESTAMP"
                       [] t = "decimal" -> "DECIMAL(10,2)"
                       [] t = "json" -> "JSONB"
                       [] t = "text" -> "TEXT"
                       [] t = "uuid" -> "UUID")
              [] d = "mysql" ->
                    (CASE t = "string" -> "VARCHAR(255)"
                       [] t = "integer" -> "INT"
                       [] t = "boolean" -> "BOOLEAN"
                       [] t = "timestamp" -> "TIMESTAMP DEFAULT CURRENT_TIMESTAMP"
                       [] t = "decimal" -> "DECIMAL(10,2)"
                       [] t = "json" -> "JSON"
                       [] t = "text" -> "LONGTEXT"
                       [] t = "uuid" -> "CHAR(36)")
              [] d = "sqlite" ->
                    (CASE t = "string" -> "TEXT"
                       [] t = "integer" -> "INTEGER"
                       [] t = "boolean" -> "INTEGER"
                       [] t = "timestamp" -> "DATETIME DEFAULT CURRENT_TIMESTAMP"
                       [] t = "decimal" -> "REAL"
                       [] t = "json" -> "TEXT"
                       [] t = "text" -> "TEXT"
                       [] t = "uuid" -> "TEXT")]]

\* a lookup that reads the postgresql table whatever the dialect
mapSqlType_DialectBlind(type, dialect) ==
    LET v == GetProp(sqlTypeMap["postgresql"], type)
    IN  IF Truthy(v) THEN v ELSE Str("TEXT")

\* sqlTypeMap[dialect][type] || "TEXT"
mapSqlType(type, dialect) ==
    LET v == GetProp(sqlTypeMap[dialect], type)
    IN  IF Truthy(v) THEN v ELSE Str("TEXT")

\* prismaTypeMap[type] || "String", with "?" appended when nullable
mapPrismaType(type, nullable) ==
    LET baseType ==
            LET v == GetProp(prismaTypeMap, type)
            IN  IF Truthy(v) THEN v ELSE Str("String")
    IN  IF nullable THEN Str(JsString(baseType) \o "?") ELSE baseType

(***************************************************************************)
(* Array.prototype.join and the string methods the emitters use.           *)
(***************************************************************************)
RECURSIVE JoinFrom(_, _, _)
JoinFrom(parts, sep, i) ==
    IF i > Len(parts) THEN ""
    ELSE IF i = Len(parts) THEN parts[i]
    ELSE parts[i] \o sep \o JoinFrom(parts, sep, i + 1)

Join(parts, sep) == JoinFrom(parts, sep, 1)

\* the accumulation  acc += piece  of a forEach loop, in array order
Concat(parts) == Join(parts, "")

LowerCaseLetters ==
    <<"a", "b", "c", "d", "e", "f", "g", "h", "i", "j", "k", "l", "m",
      "n", "o", "p", "q", "r", "s", "t", "u", "v", "w", "x", "y", "z">>

UpperCaseLetters ==
    <<"A", "B", "C", "D", "E", "F", "G", "H", "I", "J", "K", "L", "M",
      "N", "O", "P", "Q", "R", "S", "T", "U", "V", "W", "X", "Y", "Z">>

\* s.charAt(0): the empty string when s is empty
CharAt0(s) == IF Len(s) = 0 THEN "" ELSE SubSeq(s, 1, 1)

\* s.slice(1)
Slice1(s) == IF Len(s) = 0 THEN "" ELSE SubSeq(s, 2, Len(s))

\* ch.toUpperCase() for a string of at most one character
ToUpperCase(ch) ==
    IF \E i \in 1..Len(LowerCaseLetters) : LowerCaseLetters[i] = ch
        THEN UpperCaseLetters[CHOOSE i \in 1..Len(LowerCaseLetters) : LowerCaseLetters[i] = ch]
        ELSE ch

(***************************************************************************)
(* generatePrismaSchema                                                    *)
(***************************************************************************)
\* !schema?.tables || schema.tables.length === 0
NoTables(s) == s.isNull \/ Len(s.tables) = 0

PrismaPreamble ==
    "// Prisma Schema\n\ngenerator client {\n  provider = \"prisma-client-js\"\n}\n\n"
    \o "datasource db {\n  provider = \"postgresql\"\n  url      = env(\"DATABASE_URL\")\n}\n\n"

\* a field builder that appends @default(now()) before @id
PrismaField_DefaultBeforeId(col) ==
    "  " \o col.name \o " " \o JsString(mapPrismaType(col.type, col.nullable))
    \o (IF col.type = "timestamp" THEN " @default(now())" ELSE "")
    \o (IF col.isPrimaryKey THEN " @id" ELSE "")
    \o "\n"

PrismaField(col) ==
    "  " \o col.name \o " " \o JsString(mapPrismaType(col.type, col.nullable))
    \o (IF col.isPrimaryKey THEN " @id" ELSE "")
    \o (IF col.type = "timestamp" THEN " @default(now())" ELSE "")
    \o "\n"

\* a model builder that writes the table name as it is
PrismaModel_NameAsIs(table) ==
    "model " \o table.name \o " {\n"
    \o Concat([i \in 1..Len(table.columns) |-> PrismaField(table.columns[i])])
    \o "}\n"

\* a model builder that joins the field lines with newlines and adds one
\* more newline before the closing brace
PrismaModel_FieldsJoined(table) ==
    "model " \o ToUpperCase(CharAt0(table.name)) \o Slice1(table.name) \o " {\n"
    \o Join([i \in 1..Len(table.columns) |->
                "  " \o table.columns[i].name \o " "
                \o JsString(mapPrismaType(table.columns[i].type, table.columns[i].nullable))
                \o (IF table.columns[i].isPrimaryKey THEN " @id" ELSE "")
                \o (IF table.columns[i].type = "timestamp" THEN " @default(now())" ELSE "")],
            "\n")
    \o "\n}\n"

PrismaModel(table) ==
    "model " \o ToUpperCase(CharAt0(table.name)) \o Slice1(table.name) \o " {\n"
    \o Concat([i \in 1..Len(table.columns) |-> PrismaField(table.columns[i])])
    \o "}\n"

\* an emitter without the early return for an empty table list
generatePrismaSchema_NoGuard(s) ==
    PrismaPreamble
    \o Join([i \in 1..Len(s.tables) |-> PrismaModel(s.tables[i])], "\n")

generatePrismaSchema(s) ==
    IF NoTables(s) THEN ""
    ELSE PrismaPreamble
         \o Join([i \in 1..Len(s.tables) |-> PrismaModel(s.tables[i])], "\n")

(***************************************************************************)
(* generateSQL                                                             *)
(***************************************************************************)
\* a clause builder that appends NOT NULL before PRIMARY KEY
SqlColumnDef_NotNullFirst(col, dialect) ==
    "  " \o col.name \o " " \o JsString(mapSqlType(col.type, dialect))
    \o (IF ~col.nullable THEN " NOT NULL" ELSE "")
    \o (IF col.isPrimaryKey THEN " PRIMARY KEY" ELSE "")
    \o (IF Truthy(col.isForeignKey) /\ Truthy(col.foreignKeyTable)
            THEN " REFERENCES " \o JsString(col.foreignKeyTable) \o "(id)"
            ELSE "")

\* a clause builder that tests isForeignKey alone
SqlColumnDef_ForeignKeyFlagOnly(col, dialect) ==
    "  " \o col.name \o " " \o JsString(mapSqlType(col.type, dialect))
    \o (IF col.isPrimaryKey THEN " PRIMARY KEY" ELSE "")
    \o (IF ~col.nullable THEN " NOT NULL" ELSE "")
    \o (IF Truthy(col.isForeignKey)
            THEN " REFERENCES " \o JsString(col.foreignKeyTable) \o "(id)"
            ELSE "")

SqlColumnDef(col, dialect) ==
    "  " \o col.name \o " " \o JsString(mapSqlType(col.type, dialect))
    \o (IF col.isPrimaryKey THEN " PRIMARY KEY" ELSE "")
    \o (IF ~col.nullable THEN " NOT NULL" ELSE "")
    \o (IF Truthy(col.isForeignKey) /\ Truthy(col.foreignKeyTable)
            THEN " REFERENCES " \o JsString(col.foreignKeyTable) \o "(id)"
            ELSE "")

\* a statement builder that collects the clauses with unshift
SqlCreateTable_Reversed(table, dialect) ==
    "CREATE TABLE " \o table.name \o " (\n"
    \o Join([i \in 1..Len(table.columns) |->
                SqlColumnDef(table.columns[Len(table.columns) + 1 - i], dialect)], ",\n")
    \o "\n);"

SqlCreateTable(table, dialect) ==
    "CREATE TABLE " \o table.name \o " (\n"
    \o Join([i \in 1..Len(table.columns) |-> SqlColumnDef(table.columns[i], dialect)], ",\n")
    \o "\n);"

\* an emitter that ends every statement with the separator
generateSQL_TrailingSeparator(s, dialect) ==
    IF NoTables(s) THEN ""
    ELSE Concat([i \in 1..Len(s.tables) |-> SqlCreateTable(s.tables[i], dialect) \o "\n\n"])

generateSQL(s, dialect) ==
    IF NoTables(s) THEN ""
    ELSE Join([i \in 1..Len(s.tables) |-> SqlCreateTable(s.tables[i], dialect)], "\n\n")

(***************************************************************************)
(* generateDrizzleSchema                                                   *)
(***************************************************************************)
DrizzleImport ==
    "import { pgTable, serial, varchar, integer, boolean, timestamp, decimal, jsonb } from 'drizzle-orm/pg-core';\n\n"

\* the switch on col.type
\* a switch without its default branch
DrizzleBuilder_NoDefault(type) ==
    CASE type = "string" -> "varchar(255)"
      [] type = "integer" -> "serial()"
      [] type = "boolean" -> "boolean()"
      [] type = "timestamp" -> "timestamp().defaultNow()"
      [] type = "decimal" -> "decimal('10,2')"
      [] type = "json" -> "jsonb()"
      [] OTHER -> ""

\* a switch with a case for uuid columns
DrizzleBuilder_UuidCase(type) ==
    CASE type = "string" -> "varchar(255)"
      [] type = "integer" -> "serial()"
      [] type = "boolean" -> "boolean()"
      [] type = "timestamp" -> "timestamp().defaultNow()"
      [] type = "decimal" -> "decimal('10,2')"
      [] type = "json" -> "jsonb()"
      [] type = "uuid" -> "uuid()"
      [] OTHER -> "varchar(255)"

DrizzleBuilder(type) ==
    CASE type = "string" -> "varchar(255)"
      [] type = "integer" -> "serial()"
      [] type = "boolean" -> "boolean()"
      [] type = "timestamp" -> "timestamp().defaultNow()"
      [] type = "decimal" -> "decimal('10,2')"
      [] type = "json" -> "jsonb()"
      [] OTHER -> "varchar(255)"

\* a field builder that keeps serial() for primary keys only
DrizzleField_SerialForKeyOnly(col) ==
    "  " \o col.name \o ": "
    \o (IF col.type = "integer" /\ ~col.isPrimaryKey THEN "integer()" ELSE DrizzleBuilder(col.type))
    \o (IF col.isPrimaryKey THEN ".primaryKey()" ELSE "")
    \o (IF ~col.nullable THEN ".notNull()" ELSE "")
    \o ",\n"

DrizzleField(col) ==
    "  " \o col.name \o ": " \o DrizzleBuilder(col.type)
    \o (IF col.isPrimaryKey THEN ".primaryKey()" ELSE "")
    \o (IF ~col.nullable THEN ".notNull()" ELSE "")
    \o ",\n"

DrizzleTable(table) ==
    "export const " \o table.name \o " = pgTable('" \o table.name \o "', {\n"
    \o Concat([i \in 1..Len(table.columns) |-> DrizzleField(table.columns[i])])
    \o "});\n"

\* an emitter without the early return for an empty table list
generateDrizzleSchema_NoGuard(s) ==
    DrizzleImport
    \o Join([i \in 1..Len(s.tables) |-> DrizzleTable(s.tables[i])], "\n")

\* an emitter whose accumulator outlives the call: it starts from the text
\* of the previous aggregator call
generateDrizzleSchema_Accumulating(s) ==
    IF NoTables(s) THEN ""
    ELSE (IF out.op = "generateAllCodeFormats" THEN out.ret.drizzle ELSE "")
         \o DrizzleImport
         \o Join([i \in 1..Len(s.tables) |-> DrizzleTable(s.tables[i])], "\n")

generateDrizzleSchema(s) ==
    IF NoTables(s) THEN ""
    ELSE DrizzleImport
         \o Join([i \in 1..Len(s.tables) |-> DrizzleTable(s.tables[i])], "\n")

(***************************************************************************)
(* generateAllCodeFormats                                                  *)
(***************************************************************************)
\* TypeError: table.columns.map / table.columns.forEach on a table without
\* columns; the name of a table is only interpolated
SqlTableThrows_ReadsFirstColumn(table) == ~table.hasColumns \/ Len(table.columns) = 0

SqlTableThrows(table) == ~table.hasColumns

\* TypeError: table.name.charAt on a table without name, or
\* table.columns.forEach on a table without columns
PrismaModelThrows(table) == ~table.hasName \/ ~table.hasColumns

DrizzleTableThrows(table) == ~table.hasColumns

generateSQLThrows(s) ==
    ~NoTables(s) /\ \E i \in 1..Len(s.tables) : SqlTableThrows(s.tables[i])

generatePrismaSchemaThrows(s) ==
    ~NoTables(s) /\ \E i \in 1..Len(s.tables) : PrismaModelThrows(s.tables[i])

generateDrizzleSchemaThrows(s) ==
    ~NoTables(s) /\ \E i \in 1..Len(s.tables) : DrizzleTableThrows(s.tables[i])

generateAllCodeFormatsThrows(s) ==
    generateSQLThrows(s) \/ generatePrismaSchemaThrows(s) \/ generateDrizzleSchemaThrows(s)

\* an aggregator whose mysql field was copied from the postgresql one
generateAllCodeFormats_CopiedDialect(s) ==
    [sql |-> [postgresql |-> generateSQL(s, "postgresql"),
              mysql |-> generateSQL(s, "postgresql"),
              sqlite |-> generateSQL(s, "sqlite")],
     prisma |-> generatePrismaSchema(s),
     drizzle |-> generateDrizzleSchema(s)]

generateAllCodeFormats(s) ==
    [sql |-> [postgresql |-> generateSQL(s, "postgresql"),
              mysql |-> generateSQL(s, "mysql"),
              sqlite |-> generateSQL(s, "sqlite")],
     prisma |-> generatePrismaSchema(s),
     drizzle |-> generateDrizzleSchema(s)]

(***************************************************************************)
(* The schemas the caller may hold.  A column carries the fields the       *)
(* emitters read: name, type, nullable, isPrimaryKey and the optional      *)
(* isForeignKey and foreignKeyTable.                                       *)
(***************************************************************************)
\* Column.type is a string: the eight logical types, a name that is in no
\* table, and names that Object.prototype defines.
TypeStrings == LogicalTypes \cup {"varchar", "constructor", "__proto__"}

OptionalBooleans == {Undefined, Bool(TRUE), Bool(FALSE)}

OptionalTableNames == {Undefined, Str(""), Str("users")}

TableNames == {"users", "orders", "order_items"}

\* every combination of the attributes of one column
AllColumns ==
    [name : {"user_id"}, type : TypeStrings, nullable : BOOLEAN, isPrimaryKey : BOOLEAN,
     isForeignKey : OptionalBooleans, foreignKeyTable : OptionalTableNames]

\* the columns of the schemas with several tables and columns
IdColumn ==
    [name |-> "id", type |-> "integer", nullable |-> FALSE, isPrimaryKey |-> TRUE,
     isForeignKey |-> Undefined, foreignKeyTable |-> Undefined]

CreatedAtColumn ==
    [name |-> "created_at", type |-> "timestamp", nullable |-> TRUE, isPrimaryKey |-> FALSE,
     isForeignKey |-> Bool(FALSE), foreignKeyTable |-> Undefined]

ColumnPool == {IdColumn, CreatedAtColumn}

SeqsUpTo(S, n) == UNION {[1..k -> S] : k \in 0..n}

RECURSIVE SumLen(_, _)
SumLen(lists, i) == IF i > Len(lists) THEN 0 ELSE Len(lists[i]) + SumLen(lists, i + 1)

\* table names are unique within a schema
TableNameSeqs ==
    {ns \in SeqsUpTo(TableNames, MaxTables) :
        \A i, j \in 1..Len(ns) : ns[i] = ns[j] => i = j}

\* hasName and hasColumns tell whether the table object has the property;
\* name holds String(table.name), "undefined" for a missing name
MkSchema(ns, cls) ==
    [isNull |-> FALSE,
     tables |-> [i \in 1..Len(ns) |->
                    [name |-> ns[i], columns |-> cls[i], hasName |-> TRUE, hasColumns |-> TRUE]]]

NullSchema == [isNull |-> TRUE, tables |-> <<>>]

EmptySchema == [isNull |-> FALSE, tables |-> <<>>]

OneColumnSchemas == {MkSchema(<<"orders">>, <<(<<c>>)>>) : c \in AllColumns}

\* column names are unique within a table
ColumnLists ==
    {cl \in SeqsUpTo(ColumnPool, MaxColumns) :
        \A i, j \in 1..Len(cl) : cl[i].name = cl[j].name => i = j}

MultiSchemas ==
    UNION {{MkSchema(ns, cls) :
                cls \in {x \in [1..Len(ns) -> ColumnLists] : SumLen(x, 1) <= MaxColumns}} :
            ns \in TableNameSeqs}

\* table names that start with an upper-case letter, a non-letter, or are
\* one letter long or in camel case
CasingNames == {"Users", "_tmp", "9lives", "x", "userAccounts"}

CasingSchemas == {MkSchema(<<n>>, <<(<<IdColumn>>)>>) : n \in CasingNames}

Schemas == {NullSchema} \cup OneColumnSchemas \cup MultiSchemas \cup CasingSchemas

(***************************************************************************)
(* The scripts view (ScriptsBuilder) and the API, at rest while the        *)
(* emitters are called directly.                                           *)
(***************************************************************************)
NotRendered == [mounted |-> FALSE, placeholder |-> FALSE, code |-> ""]

NoPrismaCode == [seen |-> FALSE, dialect |-> "", code |-> ""]

ViewUnmounted ==
    /\ selectedTab = "sql"
    /\ selectedDialect = "postgresql"
    /\ rendered = NotRendered
    /\ prismaCode = NoPrismaCode

NoProjects == {}

\* an answer: the route and the caller of the request, the id it sent, the
\* status, the projectId and the documents in the body, the generated
\* schema in the body (a set with at most one element), and what the
\* handler did on the way: read the store, wrote it, called the AI service
NoResponse ==
    [route |-> "none", caller |-> "", sent |-> "", status |-> 0, projectId |-> "",
     docs |-> {}, result |-> {}, readStore |-> FALSE, wroteStore |-> FALSE, calledAI |-> FALSE]

ApiAtRest ==
    /\ projects = NoProjects
    /\ nextObjectId = 1
    /\ response = NoResponse

\* no call of the AI service, no chat panel and no page
NoAi == [phase |-> "none"]

NoChat == [phase |-> "none"]

NoPage == [phase |-> "none"]

AppAtRest ==
    /\ aiCall = NoAi
    /\ chat = NoChat
    /\ page = NoPage

(***************************************************************************)
(* State machine: the caller holds a schema and calls the emitters.        *)
(***************************************************************************)
NoCall == [op |-> "none", dialect |-> "", ret |-> "", threw |-> FALSE]

\* the outcome of a call: the value returned, or an exception
Returned(op, dialect, ret) == [op |-> op, dialect |-> dialect, ret |-> ret, threw |-> FALSE]

Thrown(op, dialect) == [op |-> op, dialect |-> dialect, ret |-> "", threw |-> TRUE]

NoFirst == [called |-> FALSE, schema |-> NullSchema, ret |-> "", other |-> FALSE, again |-> FALSE]

Init ==
    /\ schema \in Schemas
    /\ out = NoCall
    /\ first = NoFirst
    /\ ViewUnmounted
    /\ ApiAtRest
    /\ AppAtRest

\* a call that reverses schema.tables in place before it walks them
GenerateSQL_ReversingInPlace(dialect) ==
    /\ out' = IF generateSQLThrows(schema) THEN Thrown("generateSQL", dialect)
              ELSE Returned("generateSQL", dialect, generateSQL(schema, dialect))
    /\ schema' = [schema EXCEPT !.tables =
                    [i \in 1..Len(schema.tables) |-> schema.tables[Len(schema.tables) + 1 - i]]]

GenerateSQL(dialect) ==
    /\ out' = IF generateSQLThrows(schema) THEN Thrown("generateSQL", dialect)
              ELSE Returned("generateSQL", dialect, generateSQL(schema, dialect))
    /\ schema' = schema

GeneratePrismaSchema ==
    /\ out' = IF generatePrismaSchemaThrows(schema) THEN Thrown("generatePrismaSchema", "")
              ELSE Returned("generatePrismaSchema", "", generatePrismaSchema(schema))
    /\ schema' = schema

GenerateDrizzleSchema ==
    /\ out' = IF generateDrizzleSchemaThrows(schema) THEN Thrown("generateDrizzleSchema", "")
              ELSE Returned("generateDrizzleSchema", "", generateDrizzleSchema(schema))
    /\ schema' = schema

GenerateAllCodeFormats ==
    /\ out' = IF generateAllCodeFormatsThrows(schema) THEN Thrown("generateAllCodeFormats", "")
              ELSE Returned("generateAllCodeFormats", "", generateAllCodeFormats(schema))
    /\ schema' = schema

Next ==
    \/ \E d \in Dialects : GenerateSQL(d) /\ UNCHANGED <<first, viewVars, apiVars, appVars>>
    \/ GeneratePrismaSchema /\ UNCHANGED <<first, viewVars, apiVars, appVars>>
    \/ GenerateDrizzleSchema /\ UNCHANGED <<first, viewVars, apiVars, appVars>>
    \/ GenerateAllCodeFormats /\ UNCHANGED <<first, viewVars, apiVars, appVars>>

Spec == Init /\ [][Next]_vars

(***************************************************************************)
(* The same calls on any schema object, structurally valid or not.         *)
(***************************************************************************)
WithoutName(s, i) ==
    [s EXCEPT !.tables[i].name = "undefined", !.tables[i].hasName = FALSE]

WithoutColumns(s, i) ==
    [s EXCEPT !.tables[i].columns = <<>>, !.tables[i].hasColumns = FALSE]

MalformedSchemas ==
    UNION {{WithoutName(s, i), WithoutColumns(s, i), WithoutColumns(WithoutName(s, i), i)} :
            <<s, i>> \in {x \in MultiSchemas \X (1..MaxTables) : x[2] <= Len(x[1].tables)}}

InitAny ==
    /\ schema \in Schemas \cup MalformedSchemas
    /\ out = NoCall
    /\ first = NoFirst
    /\ ViewUnmounted
    /\ ApiAtRest
    /\ AppAtRest

SpecAny == InitAny /\ [][Next]_vars

(***************************************************************************)
(* A second caller, for repeated and interleaved calls: it remembers its   *)
(* first generateAllCodeFormats call, may pass another schema in between   *)
(* and may come back to the first one.                                     *)
(***************************************************************************)
DemoSchema ==
    MkSchema(<<"users", "orders">>, <<(<<IdColumn>>), (<<IdColumn, CreatedAtColumn>>)>>)

DetSchemas == {s \in Schemas : Len(s.tables) <= 1}

InitDet ==
    /\ schema \in DetSchemas
    /\ out = NoCall
    /\ first = NoFirst
    /\ ViewUnmounted
    /\ ApiAtRest
    /\ AppAtRest

\* history: the first aggregator call, whether a later one was made on
\* another schema, and whether one was made on the first schema after that
RecordFirst ==
    first' = IF ~first.called
                THEN [called |-> TRUE, schema |-> schema, ret |-> out'.ret,
                      other |-> FALSE, again |-> FALSE]
             ELSE IF schema # first.schema THEN [first EXCEPT !.other = TRUE]
             ELSE [first EXCEPT !.again = first.other]

\* the caller passes another schema value to the next calls
UseSchema(s) ==
    /\ first.called
    /\ s # schema
    /\ schema' = s
    /\ UNCHANGED <<out, first>>

NextDet ==
    \/ \E d \in Dialects : GenerateSQL(d) /\ UNCHANGED <<first, viewVars, apiVars, appVars>>
    \/ GeneratePrismaSchema /\ UNCHANGED <<first, viewVars, apiVars, appVars>>
    \/ GenerateDrizzleSchema /\ UNCHANGED <<first, viewVars, apiVars, appVars>>
    \/ GenerateAllCodeFormats /\ RecordFirst /\ UNCHANGED <<viewVars, apiVars, appVars>>
    \/ \E s \in {DemoSchema, first.schema} : UseSchema(s) /\ UNCHANGED <<viewVars, apiVars, appVars>>

SpecDet == InitDet /\ [][NextDet]_vars

(***************************************************************************)
(* The scripts view: it holds the selected tab and dialect, renders a      *)
(* placeholder for a schema without tables and the text of getCode()       *)
(* otherwise.  The dialect buttons exist on the SQL tab only.              *)
(***************************************************************************)
Tabs == {"sql", "prisma", "drizzle"}

\* a getCode whose Prisma datasource follows the dialect picker
getCode_DatasourceFollowsDialect(s, tab, dialect) ==
    IF s.isNull THEN ""
    ELSE LET codeFormats == generateAllCodeFormats(s) IN
         IF tab = "prisma"
            THEN "// Prisma Schema\n\ngenerator client {\n  provider = \"prisma-client-js\"\n}\n\n"
                 \o "datasource db {\n  provider = \"" \o dialect
                 \o "\"\n  url      = env(\"DATABASE_URL\")\n}\n\n"
                 \o SubSeq(codeFormats.prisma, Len(PrismaPreamble) + 1, Len(codeFormats.prisma))
         ELSE IF tab = "drizzle" THEN codeFormats.drizzle
         ELSE codeFormats.sql[dialect]

getCode(s, tab, dialect) ==
    IF s.isNull THEN ""
    ELSE LET codeFormats == generateAllCodeFormats(s) IN
         IF tab = "prisma" THEN codeFormats.prisma
         ELSE IF tab = "drizzle" THEN codeFormats.drizzle
         ELSE codeFormats.sql[dialect]

Render(s, tab, dialect) ==
    IF NoTables(s) THEN [mounted |-> TRUE, placeholder |-> TRUE, code |-> ""]
    ELSE [mounted |-> TRUE, placeholder |-> FALSE, code |-> getCode(s, tab, dialect)]

\* history: the first Prisma text displayed and the dialect selected then
RecordPrismaCode ==
    prismaCode' = IF selectedTab' = "prisma" /\ ~rendered'.placeholder /\ ~prismaCode.seen
                     THEN [seen |-> TRUE, dialect |-> selectedDialect', code |-> rendered'.code]
                  ELSE prismaCode

InitView ==
    /\ schema \in Schemas
    /\ out = NoCall
    /\ first = NoFirst
    /\ selectedTab = "sql"
    /\ selectedDialect = "postgresql"
    /\ rendered = Render(schema, "sql", "postgresql")
    /\ prismaCode = NoPrismaCode
    /\ ApiAtRest
    /\ AppAtRest

SetSelectedTab(tab) ==
    /\ ~rendered.placeholder
    /\ selectedTab' = tab
    /\ selectedDialect' = selectedDialect
    /\ rendered' = Render(schema, tab, selectedDialect)
    /\ RecordPrismaCode

SetSelectedDialect(dialect) ==
    /\ ~rendered.placeholder
    /\ selectedTab = "sql"
    /\ selectedDialect' = dialect
    /\ selectedTab' = selectedTab
    /\ rendered' = Render(schema, selectedTab, dialect)
    /\ RecordPrismaCode

NextView ==
    \/ \E tab \in Tabs : SetSelectedTab(tab) /\ UNCHANGED <<engineVars, apiVars, appVars>>
    \/ \E dialect \in Dialects : SetSelectedDialect(dialect) /\ UNCHANGED <<engineVars, apiVars, appVars>>

SpecView == InitView /\ [][NextView]_vars

(***************************************************************************)
(* The first ScriptsBuilder variant: it carries its own copies of the type *)
(* tables and of the three emitters, which read the schema prop and the    *)
(* selected dialect of the component instead of taking arguments.          *)
(***************************************************************************)
inline_prismaTypeMap ==
    [t \in LogicalTypes |->
        CASE t = "string" -> "String"
          [] t = "integer" -> "Int"
          [] t = "boolean" -> "Boolean"
          [] t = "timestamp" -> "DateTime"
          [] t = "decimal" -> "Decimal"
          [] t = "json" -> "Json"
          [] t = "text" -> "String"
          [] t = "uuid" -> "String"]

inline_sqlTypeMap ==
    [d \in Dialects |->
        [t \in LogicalTypes |->
            CASE d = "postgresql" ->
                    (CASE t = "string" -> "VARCHAR(255)"
                       [] t = "integer" -> "INTEGER"
                       [] t = "boolean" -> "BOOLEAN"
                       [] t = "timestamp" -> "TIMESTAMP DEFAULT CURRENT_TIMESTAMP"
                       [] t = "decimal" -> "DECIMAL(10,2)"
                       [] t = "json" -> "JSONB"
                       [] t = "text" -> "TEXT"
                       [] t = "uuid" -> "UUID")
              [] d = "mysql" ->
                    (CASE t = "string" -> "VARCHAR(255)"
                       [] t = "integer" -> "INT"
                       [] t = "boolean" -> "BOOLEAN"
                       [] t = "timestamp" -> "TIMESTAMP DEFAULT CURRENT_TIMESTAMP"
                       [] t = "decimal" -> "DECIMAL(10,2)"
                       [] t = "json" -> "JSON"
                       [] t = "text" -> "LONGTEXT"
                       [] t = "uuid" -> "CHAR(36)")
              [] d = "sqlite" ->
                    (CASE t = "string" -> "TEXT"
                       [] t = "integer" -> "INTEGER"
                       [] t = "boolean" -> "INTEGER"
                       [] t = "timestamp" -> "DATETIME DEFAULT CURRENT_TIMESTAMP"
                       [] t = "decimal" -> "REAL"
                       [] t = "json" -> "TEXT"
                       [] t = "text" -> "TEXT"
                       [] t = "uuid" -> "TEXT")]]

\* a lookup in the table of the dialect the component was mounted with
inline_mapSqlType_InitialDialect(type, dialect) ==
    LET v == GetProp(inline_sqlTypeMap["postgresql"], type)
    IN  IF Truthy(v) THEN v ELSE Str("TEXT")

\* sqlTypeMap[selectedDialect][type] || "TEXT"
inline_mapSqlType(type, dialect) ==
    LET v == GetProp(inline_sqlTypeMap[dialect], type)
    IN  IF Truthy(v) THEN v ELSE Str("TEXT")

inline_mapPrismaType(type, nullable) ==
    LET baseType ==
            LET v == GetProp(inline_prismaTypeMap, type)
            IN  IF Truthy(v) THEN v ELSE Str("String")
    IN  IF nullable THEN Str(JsString(baseType) \o "?") ELSE baseType

inline_generatePrismaSchema(s) ==
    IF NoTables(s) THEN ""
    ELSE "// Prisma Schema\n\ngenerator client {\n  provider = \"prisma-client-js\"\n}\n\n"
         \o "datasource db {\n  provider = \"postgresql\"\n  url      = env(\"DATABASE_URL\")\n}\n\n"
         \o Join([i \in 1..Len(s.tables) |->
                "model " \o ToUpperCase(CharAt0(s.tables[i].name)) \o Slice1(s.tables[i].name)
                \o " {\n"
                \o Concat([j \in 1..Len(s.tables[i].columns) |->
                        LET col == s.tables[i].columns[j] IN
                        "  " \o col.name \o " "
                        \o JsString(inline_mapPrismaType(col.type, col.nullable))
                        \o (IF col.isPrimaryKey THEN " @id" ELSE "")
                        \o (IF col.type = "timestamp" THEN " @default(now())" ELSE "")
                        \o "\n"])
                \o "}\n"], "\n")

inline_generateSQL(s, selDialect) ==
    IF NoTables(s) THEN ""
    ELSE Join([i \in 1..Len(s.tables) |->
            "CREATE TABLE " \o s.tables[i].name \o " (\n"
            \o Join([j \in 1..Len(s.tables[i].columns) |->
                    LET col == s.tables[i].columns[j] IN
                    "  " \o col.name \o " " \o JsString(inline_mapSqlType(col.type, selDialect))
                    \o (IF col.isPrimaryKey THEN " PRIMARY KEY" ELSE "")
                    \o (IF ~col.nullable THEN " NOT NULL" ELSE "")
                    \o (IF Truthy(col.isForeignKey) /\ Truthy(col.foreignKeyTable)
                            THEN " REFERENCES " \o JsString(col.foreignKeyTable) \o "(id)"
                            ELSE "")], ",\n")
            \o "\n);"], "\n\n")

inline_generateDrizzleSchema(s) ==
    IF NoTables(s) THEN ""
    ELSE "import { pgTable, serial, varchar, integer, boolean, timestamp, decimal, jsonb } "
         \o "from 'drizzle-orm/pg-core';\n\n"
         \o Join([i \in 1..Len(s.tables) |->
                "export const " \o s.tables[i].name \o " = pgTable('" \o s.tables[i].name
                \o "', {\n"
                \o Concat([j \in 1..Len(s.tables[i].columns) |->
                        LET col == s.tables[i].columns[j] IN
                        "  " \o col.name \o ": "
                        \o (CASE col.type = "string" -> "varchar(255)"
                               [] col.type = "integer" -> "serial()"
                               [] col.type = "boolean" -> "boolean()"
                               [] col.type = "timestamp" -> "timestamp().defaultNow()"
                               [] col.type = "decimal" -> "decimal('10,2')"
                               [] col.type = "json" -> "jsonb()"
                               [] OTHER -> "varchar(255)")
                        \o (IF col.isPrimaryKey THEN ".primaryKey()" ELSE "")
                        \o (IF ~col.nullable THEN ".notNull()" ELSE "")
                        \o ",\n"])
                \o "});\n"], "\n")

inline_getCode(s, tab, dialect) ==
    IF tab = "prisma" THEN inline_generatePrismaSchema(s)
    ELSE IF tab = "drizzle" THEN inline_generateDrizzleSchema(s)
    ELSE inline_generateSQL(s, dialect)

inline_Render(s, tab, dialect) ==
    IF NoTables(s) THEN [mounted |-> TRUE, placeholder |-> TRUE, code |-> ""]
    ELSE [mounted |-> TRUE, placeholder |-> FALSE, code |-> inline_getCode(s, tab, dialect)]

InitInline ==
    /\ schema \in Schemas
    /\ out = NoCall
    /\ first = NoFirst
    /\ selectedTab = "sql"
    /\ selectedDialect = "postgresql"
    /\ rendered = inline_Render(schema, "sql", "postgresql")
    /\ prismaCode = NoPrismaCode
    /\ ApiAtRest
    /\ AppAtRest

inline_SetSelectedTab(tab) ==
    /\ ~rendered.placeholder
    /\ selectedTab' = tab
    /\ selectedDialect' = selectedDialect
    /\ rendered' = inline_Render(schema, tab, selectedDialect)
    /\ prismaCode' = prismaCode

inline_SetSelectedDialect(dialect) ==
    /\ ~rendered.placeholder
    /\ selectedTab = "sql"
    /\ selectedDialect' = dialect
    /\ selectedTab' = selectedTab
    /\ rendered' = inline_Render(schema, selectedTab, dialect)
    /\ prismaCode' = prismaCode

NextInline ==
    \/ \E tab \in Tabs : inline_SetSelectedTab(tab) /\ UNCHANGED <<engineVars, apiVars, appVars>>
    \/ \E dialect \in Dialects :
            inline_SetSelectedDialect(dialect) /\ UNCHANGED <<engineVars, apiVars, appVars>>

SpecInline == InitInline /\ [][NextInline]_vars

(***************************************************************************)
(* The API: POST /api/generate-schema and the /api/projects routes over    *)
(* the "projects" collection.  auth() gives the caller's userId, or none.  *)
(* A null field of a document is the empty set (schema, codeFormats) or    *)
(* the empty string (explanation); createdAt and updatedAt are left out.   *)
(***************************************************************************)
MaxProjects == 2

NoUser == ""

Users == {"alice", "bob"}

Callers == Users \cup {NoUser}

\* the _id values the collection assigns, in order, and one more that is
\* well formed but never assigned
ObjectIds ==
    <<"65a000000000000000000001", "65a000000000000000000002",
      "65a000000000000000000003", "65a000000000000000000004",
      "65a000000000000000000005">>

SentIds == {ObjectIds[i] : i \in 1..(MaxProjects + 1)} \cup {"not-an-id"}

\* ObjectId.isValid on the strings of the input set
ObjectIdIsValid(id) == \E i \in 1..Len(ObjectIds) : ObjectIds[i] = id

Descriptions == {"", "a blog"}

\* what generateSchemaWithAI may resolve to
AiResults ==
    {[schema |-> MkSchema(<<"users">>, <<(<<IdColumn>>)>>), explanation |-> "Use PostgreSQL."],
     [schema |-> DemoSchema, explanation |-> ""]}

\* generateAllCodeFormats(schema) for the schemas the AI service resolves to
CodeFormatsOf == [s \in {r.schema : r \in AiResults} |-> generateAllCodeFormats(s)]

\* s.trim() for the blank characters of the input set
Trim(s) ==
    LET solid == {i \in 1..Len(s) : SubSeq(s, i, i) # " "}
    IN  IF solid = {} THEN ""
        ELSE SubSeq(s, CHOOSE i \in solid : \A j \in solid : i <= j,
                       CHOOSE i \in solid : \A j \in solid : i >= j)

\* description.substring(0, 50).trim() || "Untitled Project"
ProjectNameOf(description) ==
    LET head == IF Len(description) > 50 THEN SubSeq(description, 1, 50) ELSE description
    IN  IF Trim(head) = "" THEN "Untitled Project" ELSE Trim(head)

Respond(route, caller, sent, status) ==
    [route |-> route, caller |-> caller, sent |-> sent, status |-> status, projectId |-> "",
     docs |-> {}, result |-> {}, readStore |-> FALSE, wroteStore |-> FALSE, calledAI |-> FALSE]

\* the documents a filter {_id, userId} matches
Owned(id, userId) == {d \in projects : d._id = id /\ d.userId = userId}

\* the document with the fields of the update set
SetSchema(d, r) ==
    [d EXCEPT !.schema = {r.schema}, !.explanation = r.explanation,
              !.codeFormats = {CodeFormatsOf[r.schema]}]

\* POST /api/generate-schema; ai is the outcome of generateSchemaWithAI:
\* a set with the schema it resolved to, or empty when it threw
GenerateSchemaRoute(caller, description, projectId, ai) ==
    LET route == "POST /api/generate-schema" IN
    IF caller = NoUser THEN
        /\ response' = Respond(route, caller, projectId, 401)
        /\ UNCHANGED <<projects, nextObjectId>>
    ELSE IF description = "" THEN
        /\ response' = Respond(route, caller, projectId, 400)
        /\ UNCHANGED <<projects, nextObjectId>>
    ELSE IF ai = {} THEN
        /\ response' = [Respond(route, caller, projectId, 500) EXCEPT !.calledAI = TRUE]
        /\ UNCHANGED <<projects, nextObjectId>>
    ELSE LET r == CHOOSE x \in ai : TRUE IN
        IF projectId # "" THEN
            IF ObjectIdIsValid(projectId) THEN
                /\ projects' = (projects \ Owned(projectId, caller))
                        \cup {[SetSchema(d, r) EXCEPT !.projectName = ProjectNameOf(description),
                                                      !.description = description] :
                                d \in Owned(projectId, caller)}
                /\ nextObjectId' = nextObjectId
                /\ response' = [Respond(route, caller, projectId, 200) EXCEPT
                                    !.projectId = projectId, !.result = ai,
                                    !.calledAI = TRUE, !.wroteStore = TRUE]
            ELSE
                /\ response' = [Respond(route, caller, projectId, 200) EXCEPT
                                    !.result = ai, !.calledAI = TRUE]
                /\ UNCHANGED <<projects, nextObjectId>>
        ELSE
            /\ nextObjectId <= MaxProjects
            /\ projects' = projects \cup
                    {[_id |-> ObjectIds[nextObjectId], userId |-> caller,
                      projectName |-> ProjectNameOf(description), description |-> description,
                      schema |-> {r.schema}, explanation |-> r.explanation,
                      codeFormats |-> {CodeFormatsOf[r.schema]}]}
            /\ nextObjectId' = nextObjectId + 1
            /\ response' = [Respond(route, caller, projectId, 200) EXCEPT
                                !.projectId = ObjectIds[nextObjectId], !.result = ai,
                                !.calledAI = TRUE, !.wroteStore = TRUE]

\* GET /api/projects
ListProjects(caller) ==
    LET route == "GET /api/projects" IN
    /\ response' = IF caller = NoUser THEN Respond(route, caller, "", 401)
                   ELSE [Respond(route, caller, "", 200) EXCEPT
                            !.docs = {d \in projects : d.userId = caller}, !.readStore = TRUE]
    /\ UNCHANGED <<projects, nextObjectId>>

\* POST /api/projects; body.schema is a set with the schema sent, or empty
CreateProject(caller, body) ==
    LET route == "POST /api/projects" IN
    IF caller = NoUser THEN
        /\ response' = Respond(route, caller, "", 401)
        /\ UNCHANGED <<projects, nextObjectId>>
    ELSE IF body.description = "" THEN
        /\ response' = Respond(route, caller, "", 400)
        /\ UNCHANGED <<projects, nextObjectId>>
    ELSE
        LET project ==
                [_id |-> ObjectIds[nextObjectId], userId |-> caller,
                 projectName |-> ProjectNameOf(body.description),
                 description |-> body.description,
                 schema |-> {r.schema : r \in body.schema},
                 explanation |-> IF body.schema = {} THEN ""
                                 ELSE (CHOOSE r \in body.schema : TRUE).explanation,
                 codeFormats |-> {CodeFormatsOf[r.schema] : r \in body.schema}]
        IN  /\ nextObjectId <= MaxProjects
            /\ projects' = projects \cup {project}
            /\ nextObjectId' = nextObjectId + 1
            /\ response' = [Respond(route, caller, "", 200) EXCEPT
                                !.projectId = project._id, !.docs = {project},
                                !.wroteStore = TRUE]

\* a lookup by _id alone
GetProject_ByIdOnly(caller, id) ==
    LET route == "GET /api/projects/[id]" IN
    /\ response' =
            IF caller = NoUser THEN Respond(route, caller, id, 401)
            ELSE IF ~ObjectIdIsValid(id) THEN Respond(route, caller, id, 400)
            ELSE IF {d \in projects : d._id = id} = {}
                THEN [Respond(route, caller, id, 404) EXCEPT !.readStore = TRUE]
            ELSE [Respond(route, caller, id, 200) EXCEPT
                    !.docs = {d \in projects : d._id = id}, !.projectId = id, !.readStore = TRUE]
    /\ UNCHANGED <<projects, nextObjectId>>

\* GET /api/projects/[id]
GetProject(caller, id) ==
    LET route == "GET /api/projects/[id]" IN
    /\ response' =
            IF caller = NoUser THEN Respond(route, caller, id, 401)
            ELSE IF ~ObjectIdIsValid(id) THEN Respond(route, caller, id, 400)
            ELSE IF Owned(id, caller) = {}
                THEN [Respond(route, caller, id, 404) EXCEPT !.readStore = TRUE]
            ELSE [Respond(route, caller, id, 200) EXCEPT
                    !.docs = Owned(id, caller), !.projectId = id, !.readStore = TRUE]
    /\ UNCHANGED <<projects, nextObjectId>>

\* PUT /api/projects/[id]; body.schema is a set with the schema, explanation
\* and code formats sent, or empty when the body provides none of them
UpdateProject(caller, id, body) ==
    LET route == "PUT /api/projects/[id]" IN
    IF caller = NoUser THEN
        /\ response' = Respond(route, caller, id, 401)
        /\ UNCHANGED <<projects, nextObjectId>>
    ELSE IF ~ObjectIdIsValid(id) THEN
        /\ response' = Respond(route, caller, id, 400)
        /\ UNCHANGED <<projects, nextObjectId>>
    ELSE IF Owned(id, caller) = {} THEN
        /\ response' = [Respond(route, caller, id, 404) EXCEPT !.readStore = TRUE]
        /\ UNCHANGED <<projects, nextObjectId>>
    ELSE
        LET updated == {IF body.schema = {} THEN d
                        ELSE SetSchema(d, CHOOSE r \in body.schema : TRUE) :
                            d \in Owned(id, caller)}
        IN  /\ projects' = (projects \ Owned(id, caller)) \cup updated
            /\ nextObjectId' = nextObjectId
            /\ response' = [Respond(route, caller, id, 200) EXCEPT
                                !.docs = updated, !.projectId = id,
                                !.readStore = TRUE, !.wroteStore = TRUE]

\* DELETE /api/projects/[id]
DeleteProject(caller, id) ==
    LET route == "DELETE /api/projects/[id]" IN
    IF caller = NoUser THEN
        /\ response' = Respond(route, caller, id, 401)
        /\ UNCHANGED <<projects, nextObjectId>>
    ELSE IF ~ObjectIdIsValid(id) THEN
        /\ response' = Respond(route, caller, id, 400)
        /\ UNCHANGED <<projects, nextObjectId>>
    ELSE IF Owned(id, caller) = {} THEN
        /\ response' = [Respond(route, caller, id, 404) EXCEPT !.readStore = TRUE]
        /\ UNCHANGED <<projects, nextObjectId>>
    ELSE
        /\ projects' = projects \ Owned(id, caller)
        /\ nextObjectId' = nextObjectId
        /\ response' = [Respond(route, caller, id, 200) EXCEPT
                            !.projectId = id, !.readStore = TRUE, !.wroteStore = TRUE]

SchemaBodies == {{}} \cup {{r} : r \in AiResults}

InitApi ==
    /\ schema = NullSchema
    /\ out = NoCall
    /\ first = NoFirst
    /\ ViewUnmounted
    /\ ApiAtRest
    /\ AppAtRest

NextApi ==
    \/ \E caller \in Callers, description \in Descriptions,
          projectId \in SentIds \cup {""}, ai \in SchemaBodies :
            GenerateSchemaRoute(caller, description, projectId, ai)
            /\ UNCHANGED <<engineVars, viewVars, appVars>>
    \/ \E caller \in Callers : ListProjects(caller) /\ UNCHANGED <<engineVars, viewVars, appVars>>
    \/ \E caller \in Callers, body \in [description : Descriptions, schema : SchemaBodies] :
            CreateProject(caller, body) /\ UNCHANGED <<engineVars, viewVars, appVars>>
    \/ \E caller \in Callers, id \in SentIds :
            GetProject(caller, id) /\ UNCHANGED <<engineVars, viewVars, appVars>>
    \/ \E caller \in Callers, id \in SentIds, body \in [schema : SchemaBodies] :
            UpdateProject(caller, id, body) /\ UNCHANGED <<engineVars, viewVars, appVars>>
    \/ \E caller \in Callers, id \in SentIds :
            DeleteProject(caller, id) /\ UNCHANGED <<engineVars, viewVars, appVars>>

SpecApi == InitApi /\ [][NextApi]_vars

(***************************************************************************)
(* Reading the emitted text back: the properties below are stated on the   *)
(* characters of the artifacts, not on the operators that built them.      *)
(***************************************************************************)
StartsWith(s, p) == Len(s) >= Len(p) /\ SubSeq(s, 1, Len(p)) = p

EndsWith(s, p) == Len(s) >= Len(p) /\ SubSeq(s, Len(s) - Len(p) + 1, Len(s)) = p

\* the positions at which sub occurs in s
Occurrences(s, sub) ==
    {i \in 1..(Len(s) - Len(sub) + 1) : SubSeq(s, i, i + Len(sub) - 1) = sub}

Contains(s, sub) == Occurrences(s, sub) # {}

\* first position of sub in s, 0 when there is none
IndexOf(s, sub) ==
    LET occ == Occurrences(s, sub)
    IN  IF occ = {} THEN 0 ELSE CHOOSE i \in occ : \A j \in occ : i <= j

\* the pieces of s between the occurrences of the one-character separator
Split(s, sep) ==
    LET occ == Occurrences(s, sep)
        n == Cardinality(occ)
        pos == [k \in 1..n |-> CHOOSE p \in occ : Cardinality({q \in occ : q < p}) = k - 1]
    IN  [k \in 1..(n + 1) |->
            LET from == IF k = 1 THEN 1 ELSE pos[k - 1] + 1
                to == IF k = n + 1 THEN Len(s) ELSE pos[k] - 1
            IN  IF from > to THEN "" ELSE SubSeq(s, from, to)]

Lines(s) == IF s = "" THEN <<>> ELSE Split(s, "\n")

\* the text of s before the first sep (all of s when sep does not occur)
Before(s, sep) == IF Contains(s, sep) THEN SubSeq(s, 1, IndexOf(s, sep) - 1) ELSE s

DropPrefix(s, p) == SubSeq(s, Len(p) + 1, Len(s))

DropSuffix(s, p) == SubSeq(s, 1, Len(s) - Len(p))

\* the columns of a schema in emission order
RECURSIVE FlatColumnsFrom(_, _)
FlatColumnsFrom(tables, i) ==
    IF i > Len(tables) THEN <<>>
    ELSE tables[i].columns \o FlatColumnsFrom(tables, i + 1)

FlatColumns(s) == FlatColumnsFrom(s.tables, 1)

IsColumnLine(line) == StartsWith(line, "  ")

\* the column lines of an artifact body, in order
ColumnLines(text) == SelectSeq(Lines(text), IsColumnLine)

\* a column clause of the SQL output without the separator that follows it
SqlClause(line) == IF EndsWith(line, ",") THEN DropSuffix(line, ",") ELSE line

\* foreignKeyTable is present: a non-empty table name (an absent field and
\* the empty string both count as absent)
HasForeignKeyTable(col) ==
    col.foreignKeyTable.type = "string" /\ col.foreignKeyTable.str # ""

IsForeignKeyTrue(col) == col.isForeignKey = Bool(TRUE)

\* the physical type token of a column in a dialect: the table entry of a
\* logical type; for another type string, what the emitter wrote
ExpectedSqlType(col, dialect) ==
    IF col.type \in LogicalTypes THEN sqlTypeMap[dialect][col.type]
    ELSE JsString(mapSqlType(col.type, dialect))

\* the constraint clauses that follow the physical type, in their order
ExpectedSqlFlags(col) ==
    (IF col.isPrimaryKey THEN " PRIMARY KEY" ELSE "")
    \o (IF col.nullable = FALSE THEN " NOT NULL" ELSE "")
    \o (IF IsForeignKeyTrue(col) /\ HasForeignKeyTable(col)
            THEN " REFERENCES " \o col.foreignKeyTable.str \o "(id)" ELSE "")

ExpectedSqlClause(col, dialect) ==
    "  " \o col.name \o " " \o ExpectedSqlType(col, dialect) \o ExpectedSqlFlags(col)

FlagCompositionColumn ==
    [name |-> "user_id", type |-> "integer", nullable |-> FALSE, isPrimaryKey |-> TRUE,
     isForeignKey |-> Bool(TRUE), foreignKeyTable |-> Str("users")]

FlagCompositionSchema == MkSchema(<<"orders">>, <<(<<FlagCompositionColumn>>)>>)

\* C1: after generateSQL, the k-th column clause of the output is, for the
\* k-th column of the schema, the two-space indent, the column name, the
\* physical type, then " PRIMARY KEY" iff isPrimaryKey, then " NOT NULL" iff
\* nullable is false, then " REFERENCES <foreignKeyTable>(id)" last; the
\* column user_id integer, primary key, not nullable, foreign key to users
\* yields "  user_id INTEGER PRIMARY KEY NOT NULL REFERENCES users(id)" under
\* postgresql.
C1_ColumnClauseOrder ==
    out.op = "generateSQL" =>
        LET lines == ColumnLines(out.ret)
            cols == FlatColumns(schema)
        IN  /\ Len(lines) = Len(cols)
            /\ \A k \in 1..Len(cols) :
                    SqlClause(lines[k]) = ExpectedSqlClause(cols[k], out.dialect)
            /\ (schema = FlagCompositionSchema /\ out.dialect = "postgresql") =>
                    lines = <<"  user_id INTEGER PRIMARY KEY NOT NULL REFERENCES users(id)">>

C1_Witness ==
    /\ out.op = "generateSQL"
    /\ out.dialect = "postgresql"
    /\ schema = FlagCompositionSchema
    /\ Contains(out.ret, "PRIMARY KEY NOT NULL REFERENCES users(id)")

(***************************************************************************)
(* The artifacts a call returned, and the tables and columns read back     *)
(* from their text.                                                        *)
(***************************************************************************)
Artifacts ==
    CASE out.op = "generateSQL" -> {[kind |-> "sql", dialect |-> out.dialect, text |-> out.ret]}
      [] out.op = "generatePrismaSchema" -> {[kind |-> "prisma", dialect |-> "", text |-> out.ret]}
      [] out.op = "generateDrizzleSchema" -> {[kind |-> "drizzle", dialect |-> "", text |-> out.ret]}
      [] out.op = "generateAllCodeFormats" ->
            {[kind |-> "sql", dialect |-> d, text |-> out.ret.sql[d]] : d \in Dialects}
            \cup {[kind |-> "prisma", dialect |-> "", text |-> out.ret.prisma],
                  [kind |-> "drizzle", dialect |-> "", text |-> out.ret.drizzle]}
      [] OTHER -> {}

\* how each artifact writes a table header and ends a table or column name
HeaderPrefix(kind) ==
    CASE kind = "sql" -> "CREATE TABLE " [] kind = "prisma" -> "model " [] OTHER -> "export const "

TableNameEnd(kind) ==
    CASE kind = "sql" -> " (" [] kind = "prisma" -> " {" [] OTHER -> " = pgTable("

ColumnNameEnd(kind) == IF kind = "drizzle" THEN ":" ELSE " "

RECURSIVE ParseFrom(_, _, _, _)
ParseFrom(lines, i, acc, kind) ==
    IF i > Len(lines) THEN acc
    ELSE IF StartsWith(lines[i], HeaderPrefix(kind))
        THEN ParseFrom(lines, i + 1,
                Append(acc, [name |-> Before(DropPrefix(lines[i], HeaderPrefix(kind)),
                                             TableNameEnd(kind)),
                             columns |-> <<>>]),
                kind)
    ELSE IF IsColumnLine(lines[i]) /\ Len(acc) > 0
        THEN ParseFrom(lines, i + 1,
                [acc EXCEPT ![Len(acc)].columns =
                    Append(@, Before(DropPrefix(lines[i], "  "), ColumnNameEnd(kind)))],
                kind)
    ELSE ParseFrom(lines, i + 1, acc, kind)

\* the tables of an artifact with their column names, in textual order
ParsedTables(a) == ParseFrom(Lines(a.text), 1, <<>>, a.kind)

\* the table name as the artifact writes it (the Prisma model name has its
\* first letter in upper case)
WrittenTableName(kind, name) ==
    IF kind = "prisma" /\ name = "users" THEN "Users"
    ELSE IF kind = "prisma" /\ name = "orders" THEN "Orders"
    ELSE IF kind = "prisma" /\ name = "order_items" THEN "Order_items"
    ELSE IF kind = "prisma" /\ name = "x" THEN "X"
    ELSE IF kind = "prisma" /\ name = "userAccounts" THEN "UserAccounts"
    ELSE name

SchemaOutline(kind, s) ==
    [i \in 1..Len(s.tables) |->
        [name |-> WrittenTableName(kind, s.tables[i].name),
         columns |-> [j \in 1..Len(s.tables[i].columns) |-> s.tables[i].columns[j].name]]]

\* C2: in every emitted artifact the tables appear in the order of
\* schema.tables and, within each table, the columns in the order of
\* table.columns; none is dropped, duplicated or reordered.
C2_OrderPreserved ==
    \A a \in Artifacts : ParsedTables(a) = SchemaOutline(a.kind, schema)

C2_Witness ==
    /\ out.op = "generateAllCodeFormats"
    /\ schema = DemoSchema
    /\ \A a \in Artifacts :
            /\ Len(ParsedTables(a)) = 2
            /\ ParsedTables(a)[2].columns = <<"id", "created_at">>

(***************************************************************************)
(* Type tokens of a schema with one table and one column.                  *)
(***************************************************************************)
IsOneColumn(s) == Len(s.tables) = 1 /\ Len(s.tables[1].columns) = 1

TheColumn == schema.tables[1].columns[1]

\* the only column line of an artifact
TheLine(a) == ColumnLines(IF a.kind = "prisma" THEN DropPrefix(a.text, PrismaPreamble) ELSE a.text)[1]

\* the word that follows the column name on its line
WordAfterName(a) == Split(TheLine(a), " ")[4]

\* the type token: the first word of the physical type in SQL, the scalar
\* type without its "?" in Prisma, the builder call in Drizzle
TypeToken(a) ==
    CASE a.kind = "sql" -> WordAfterName(a)
      [] a.kind = "prisma" -> Before(WordAfterName(a), "?")
      [] OTHER -> Before(Before(WordAfterName(a), "."), ",")

\* C3: for each of the eight logical types and each of the five targets the
\* emitted column carries a type token that is neither blank nor "undefined".
C3_TypeCoverage ==
    (IsOneColumn(schema) /\ TheColumn.type \in LogicalTypes) =>
        \A a \in Artifacts :
            /\ Len(Split(TheLine(a), " ")) >= 4
            /\ TypeToken(a) # ""
            /\ TypeToken(a) # "undefined"

C3_Witness ==
    /\ out.op = "generateAllCodeFormats"
    /\ IsOneColumn(schema)
    /\ TheColumn.type = "uuid"
    /\ {TypeToken(a) : a \in Artifacts} = {"UUID", "CHAR(36)", "TEXT", "String", "varchar(255)"}

\* the column line each target writes when the type token is the fallback
ExpectedFallbackLine(a, col) ==
    CASE a.kind = "sql" -> "  " \o col.name \o " TEXT" \o ExpectedSqlFlags(col)
      [] a.kind = "prisma" ->
            "  " \o col.name \o " String" \o (IF col.nullable THEN "?" ELSE "")
            \o (IF col.isPrimaryKey THEN " @id" ELSE "")
      [] OTHER ->
            "  " \o col.name \o ": varchar(255)"
            \o (IF col.isPrimaryKey THEN ".primaryKey()" ELSE "")
            \o (IF col.nullable = FALSE THEN ".notNull()" ELSE "") \o ","

\* C4: for every column type string that is not one of the eight logical
\* types the type token is the fallback: TEXT in the three SQL dialects,
\* String in Prisma, varchar(255) in Drizzle; the logical type text yields
\* String in Prisma and varchar(255) in Drizzle.
C4_FallbackForUnknownType ==
    IsOneColumn(schema) =>
        \A a \in Artifacts :
            /\ TheColumn.type \notin LogicalTypes =>
                    SqlClause(TheLine(a)) = SqlClause(ExpectedFallbackLine(a, TheColumn))
            /\ (TheColumn.type = "text" /\ a.kind # "sql") =>
                    TheLine(a) = ExpectedFallbackLine(a, TheColumn)

(***************************************************************************)
(* Empty table list.                                                       *)
(***************************************************************************)
ZeroTables(s) == ~s.isNull /\ Len(s.tables) = 0

\* C5: for a schema with zero tables generateAllCodeFormats returns the
\* empty string in sql.postgresql, sql.mysql, sql.sqlite and drizzle.
C5_EmptySchemaEmptyOutputs ==
    (out.op = "generateAllCodeFormats" /\ ZeroTables(schema)) =>
        /\ \A d \in Dialects : out.ret.sql[d] = ""
        /\ out.ret.drizzle = ""

C5_Witness ==
    /\ out.op = "generateAllCodeFormats"
    /\ schema = EmptySchema
    /\ out.ret.drizzle = ""
    /\ out.ret.sql.sqlite = ""

\* the generator client block and the postgresql datasource block
HasPrismaPreamble(text) ==
    /\ StartsWith(text, "// Prisma Schema\n\ngenerator client {\n")
    /\ Contains(text, "datasource db {\n  provider = \"postgresql\"\n")

\* the Prisma text of the last call, when it produced one
PrismaTexts == {a.text : a \in {b \in Artifacts : b.kind = "prisma"}}

\* C6 (as claimed): for a schema with zero tables the Prisma output still
\* includes its fixed preamble, it is not the empty string.
C6_PreambleForEmptySchema ==
    ZeroTables(schema) => \A t \in PrismaTexts : t # "" /\ HasPrismaPreamble(t)

\* C6 (amended): for a schema with zero tables the Prisma output is the
\* empty string, without the preamble; the preamble is emitted exactly when
\* the schema has at least one table.
C6_PreambleIffTables ==
    \A t \in PrismaTexts :
        /\ ZeroTables(schema) => t = ""
        /\ HasPrismaPreamble(t) <=> (~schema.isNull /\ Len(schema.tables) > 0)

C6_Witness ==
    /\ out.op = "generatePrismaSchema"
    /\ schema = EmptySchema
    /\ out.ret = ""

(***************************************************************************)
(* Foreign keys.                                                           *)
(***************************************************************************)
SqlArtifacts == {a \in Artifacts : a.kind = "sql"}

\* C7: a column clause of the SQL output has a REFERENCES clause iff
\* isForeignKey is true and foreignKeyTable is present, and then it ends
\* with " REFERENCES <foreignKeyTable>(id)"; in every dialect.
C7_ReferencesIffForeignKey ==
    \A a \in SqlArtifacts :
        LET lines == ColumnLines(a.text)
            cols == FlatColumns(schema)
        IN  /\ Len(lines) = Len(cols)
            /\ \A k \in 1..Len(cols) :
                /\ Contains(lines[k], "REFERENCES") <=>
                        (IsForeignKeyTrue(cols[k]) /\ HasForeignKeyTable(cols[k]))
                /\ Contains(lines[k], "REFERENCES") =>
                        EndsWith(SqlClause(lines[k]),
                                 " REFERENCES " \o cols[k].foreignKeyTable.str \o "(id)")

\* a foreign key without a table, and a table without the foreign-key flag
C7_Witness ==
    /\ out.op = "generateSQL"
    /\ IsOneColumn(schema)
    /\ \/ IsForeignKeyTrue(TheColumn) /\ TheColumn.foreignKeyTable = Undefined
       \/ TheColumn.isForeignKey = Undefined /\ TheColumn.foreignKeyTable = Str("users")
    /\ ~Contains(out.ret, "REFERENCES")
    /\ EndsWith(out.ret, "\n);")

C9_AggregatorFields ==
    out.op = "generateAllCodeFormats" =>
        /\ DOMAIN out.ret = {"sql", "prisma", "drizzle"}
        /\ DOMAIN out.ret.sql = Dialects
        /\ \A d \in Dialects : out.ret.sql[d] = generateSQL(schema, d)
        /\ out.ret.prisma = generatePrismaSchema(schema)
        /\ out.ret.drizzle = generateDrizzleSchema(schema)

C9_Witness ==
    /\ out.op = "generateAllCodeFormats"
    /\ schema = DemoSchema
    /\ Contains(out.ret.sql.mysql, "id INT PRIMARY KEY")
    /\ Contains(out.ret.sql.postgresql, "id INTEGER PRIMARY KEY")
    /\ Contains(out.ret.sql.sqlite, "created_at DATETIME")

\* C10: no emitter call changes the schema value it was given.
C10_SchemaUnchanged == [][schema' = schema]_vars

C10_Witness ==
    /\ out.op = "generateSQL"
    /\ schema = DemoSchema
    /\ StartsWith(out.ret, "CREATE TABLE users (")

(***************************************************************************)
(* Exceptions.                                                             *)
(***************************************************************************)
\* every table has a name and a columns sequence (possibly empty)
StructurallyValid(s) ==
    ~s.isNull /\ \A i \in 1..Len(s.tables) : s.tables[i].hasName /\ s.tables[i].hasColumns

\* C11: on a structurally valid schema no emitter call raises: each call
\* returns, and each of the emissions of the call is a text.
C11_NoEmitterRaises ==
    (out.op # "none" /\ StructurallyValid(schema)) =>
        /\ ~out.threw
        /\ Artifacts # {}
        /\ \A a \in Artifacts : Len(a.text) >= 0

\* all five emissions returned for a schema with a table without columns
C11_Witness ==
    /\ out.op = "generateAllCodeFormats"
    /\ StructurallyValid(schema)
    /\ \E i \in 1..Len(schema.tables) : Len(schema.tables[i].columns) = 0
    /\ ~out.threw
    /\ Cardinality(Artifacts) = 5

\* a schema that is not structurally valid does raise
C11_MalformedRaises ==
    /\ out.op = "generatePrismaSchema"
    /\ ~StructurallyValid(schema)
    /\ out.threw

(***************************************************************************)
(* Column and header lines of the three formats.                           *)
(***************************************************************************)
\* the word after the column name of a SQL column line
SqlTypeWord(line) == Split(SqlClause(line), " ")[4]

\* C13: a column of type boolean with nullable = true has the type token
\* BOOLEAN under postgresql and mysql and INTEGER under sqlite, and its
\* clause has no NOT NULL in any dialect.
C13_NullableBoolean ==
    \A a \in SqlArtifacts :
        LET lines == ColumnLines(a.text)
            cols == FlatColumns(schema)
        IN  \A k \in 1..Len(cols) :
                (cols[k].type = "boolean" /\ cols[k].nullable) =>
                    /\ k <= Len(lines)
                    /\ Len(Split(SqlClause(lines[k]), " ")) >= 4
                    /\ SqlTypeWord(lines[k]) =
                            (IF a.dialect = "sqlite" THEN "INTEGER" ELSE "BOOLEAN")
                    /\ ~Contains(lines[k], "NOT NULL")

C13_Witness ==
    /\ out.op = "generateAllCodeFormats"
    /\ IsOneColumn(schema)
    /\ TheColumn.type = "boolean"
    /\ TheColumn.nullable
    /\ ~TheColumn.isPrimaryKey
    /\ TheColumn.isForeignKey = Undefined
    /\ out.ret.sql["sqlite"] = "CREATE TABLE orders (\n  user_id INTEGER\n);"
    /\ out.ret.sql["mysql"] = "CREATE TABLE orders (\n  user_id BOOLEAN\n);"

PrismaArtifacts == {a \in Artifacts : a.kind = "prisma"}

IsModelHeader(line) == StartsWith(line, "model ")

\* the model header lines of a Prisma text, in order
ModelHeaders(text) == SelectSeq(Lines(text), IsModelHeader)

ModelName(line) == Before(DropPrefix(line, "model "), " {")

\* C14: the Prisma model name of a table is the table name with only its
\* first character upper-cased: order_items gives "model Order_items {", a
\* name that starts with an upper-case letter or a non-letter is unchanged,
\* and every character after the first is unchanged.
C14_ModelNameFirstUpper ==
    \A a \in PrismaArtifacts :
        LET headers == ModelHeaders(a.text) IN
        /\ Len(headers) = Len(schema.tables)
        /\ \A i \in 1..Len(schema.tables) :
                LET name == schema.tables[i].name
                    written == ModelName(headers[i])
                IN  /\ headers[i] = "model " \o written \o " {"
                    /\ Len(written) = Len(name)
                    /\ Slice1(written) = Slice1(name)
                    /\ written = WrittenTableName("prisma", name)
                    /\ name = "order_items" => headers[i] = "model Order_items {"
                    /\ name \in {"Users", "_tmp", "9lives"} => written = name

C14_Witness ==
    /\ out.op = "generatePrismaSchema"
    /\ Len(schema.tables) = 1
    /\ schema.tables[1].name = "_tmp"
    /\ ModelHeaders(out.ret) = <<"model _tmp {">>

C14_WitnessSnakeCase ==
    /\ out.op = "generatePrismaSchema"
    /\ Len(schema.tables) = 2
    /\ schema.tables[2].name = "order_items"
    /\ ModelHeaders(out.ret)[2] = "model Order_items {"

\* the field lines of a Prisma text, in order
PrismaFieldLines(text) ==
    IF text = "" THEN <<>> ELSE ColumnLines(DropPrefix(text, PrismaPreamble))

\* the scalar type of a column: the table entry of a logical type; for
\* another type string, what the emitter wrote
ExpectedPrismaScalar(col) ==
    IF col.type \in LogicalTypes THEN prismaTypeMap[col.type]
    ELSE JsString(mapPrismaType(col.type, FALSE))

ExpectedPrismaField(col) ==
    "  " \o col.name \o " " \o ExpectedPrismaScalar(col)
    \o (IF col.nullable THEN "?" ELSE "")
    \o (IF col.isPrimaryKey THEN " @id" ELSE "")
    \o (IF col.type = "timestamp" THEN " @default(now())" ELSE "")

\* C15: the k-th Prisma field line is the column name, the scalar type, "?"
\* iff nullable, " @id" iff isPrimaryKey, " @default(now())" iff the type
\* is exactly "timestamp", in this order; the annotation is on every
\* timestamp column and on no other, whatever nullable and isPrimaryKey.
C15_PrismaFieldOrder ==
    \A a \in PrismaArtifacts :
        LET lines == PrismaFieldLines(a.text)
            cols == FlatColumns(schema)
        IN  /\ Len(lines) = Len(cols)
            /\ \A k \in 1..Len(cols) :
                    /\ lines[k] = ExpectedPrismaField(cols[k])
                    /\ Contains(lines[k], "@default(now())") <=> cols[k].type = "timestamp"

C15_Witness ==
    /\ out.op = "generatePrismaSchema"
    /\ IsOneColumn(schema)
    /\ TheColumn.type = "timestamp"
    /\ TheColumn.nullable
    /\ TheColumn.isPrimaryKey
    /\ PrismaFieldLines(out.ret) = <<"  user_id DateTime? @id @default(now())">>

DrizzleArtifacts == {a \in Artifacts : a.kind = "drizzle"}

ExpectedDrizzleCall(type) ==
    CASE type = "string" -> "varchar(255)"
      [] type = "integer" -> "serial()"
      [] type = "boolean" -> "boolean()"
      [] type = "timestamp" -> "timestamp().defaultNow()"
      [] type = "decimal" -> "decimal('10,2')"
      [] type = "json" -> "jsonb()"
      [] OTHER -> "varchar(255)"

ExpectedDrizzleField(col) ==
    "  " \o col.name \o ": " \o ExpectedDrizzleCall(col.type)
    \o (IF col.isPrimaryKey THEN ".primaryKey()" ELSE "")
    \o (IF col.nullable = FALSE THEN ".notNull()" ELSE "")
    \o ","

\* C16: the k-th Drizzle field line is the column name, the builder call
\* chosen by the type alone (serial() for integer also when the column is
\* no primary key, varchar(255) for every type outside the six cases),
\* ".primaryKey()" iff isPrimaryKey, then ".notNull()" iff nullable is
\* false, then a comma.
C16_DrizzleFieldOrder ==
    \A a \in DrizzleArtifacts :
        LET lines == ColumnLines(a.text)
            cols == FlatColumns(schema)
        IN  /\ Len(lines) = Len(cols)
            /\ \A k \in 1..Len(cols) :
                    /\ lines[k] = ExpectedDrizzleField(cols[k])
                    /\ cols[k].type = "integer" => Contains(lines[k], ": serial()")

C16_Witness ==
    /\ out.op = "generateDrizzleSchema"
    /\ IsOneColumn(schema)
    /\ TheColumn.type = "integer"
    /\ ~TheColumn.isPrimaryKey
    /\ ~TheColumn.nullable
    /\ ColumnLines(out.ret) = <<"  user_id: serial().notNull(),">>

C16_WitnessKey ==
    /\ out.op = "generateDrizzleSchema"
    /\ IsOneColumn(schema)
    /\ TheColumn.type = "uuid"
    /\ TheColumn.isPrimaryKey
    /\ ~TheColumn.nullable
    /\ ColumnLines(out.ret) = <<"  user_id: varchar(255).primaryKey().notNull(),">>

\* the lines of one statement: the header, the clauses with a comma after
\* each but the last (one empty line when there is no clause), the closing
ExpectedStatementLines(table, dialect) ==
    LET n == Len(table.columns) IN
    <<"CREATE TABLE " \o table.name \o " (">>
    \o (IF n = 0 THEN <<"">>
         ELSE [k \in 1..n |-> ExpectedSqlClause(table.columns[k], dialect)
                                \o (IF k < n THEN "," ELSE "")])
    \o <<");">>

RECURSIVE ExpectedSqlLinesFrom(_, _, _)
ExpectedSqlLinesFrom(tables, i, dialect) ==
    IF i > Len(tables) THEN <<>>
    ELSE ExpectedStatementLines(tables[i], dialect)
         \o (IF i < Len(tables) THEN <<"">> ELSE <<>>)
         \o ExpectedSqlLinesFrom(tables, i + 1, dialect)

IsCreateTable(line) == StartsWith(line, "CREATE TABLE ")

\* C18: for a schema with tables the SQL text is one statement per table,
\* "CREATE TABLE <name> (", the clauses joined by a comma and a newline,
\* a newline and ");"; one blank line between consecutive statements,
\* nothing before the first statement and nothing after the last.
C18_StatementLayout ==
    \A a \in SqlArtifacts :
        ~NoTables(schema) =>
            /\ Lines(a.text) = ExpectedSqlLinesFrom(schema.tables, 1, a.dialect)
            /\ Len(SelectSeq(Lines(a.text), IsCreateTable)) = Len(schema.tables)
            /\ StartsWith(a.text, "CREATE TABLE ")
            /\ EndsWith(a.text, "\n);")
            /\ Cardinality(Occurrences(a.text, ");\n\nCREATE TABLE ")) = Len(schema.tables) - 1

C18_Witness ==
    /\ out.op = "generateSQL"
    /\ out.dialect = "mysql"
    /\ schema = DemoSchema
    /\ out.ret = "CREATE TABLE users (\n  id INT PRIMARY KEY NOT NULL\n);\n\n"
                 \o "CREATE TABLE orders (\n  id INT PRIMARY KEY NOT NULL,\n"
                 \o "  created_at TIMESTAMP DEFAULT CURRENT_TIMESTAMP\n);"

(***************************************************************************)
(* The scripts view.                                                       *)
(***************************************************************************)
\* a CREATE TABLE statement whose parentheses hold no column clause
HasEmptyColumnList(text) == Contains(text, " (\n\n);")

\* C12: the scripts view never displays a CREATE TABLE statement with no
\* column list, because the table and column counts are checked before the
\* SQL emitter is reached.
C12_NoEmptyColumnList ==
    (rendered.mounted /\ selectedTab = "sql") => ~HasEmptyColumnList(rendered.code)

\* C17: a displayed Prisma text starts with the one fixed preamble (client
\* generator, postgresql datasource), whatever the schema, and is the text
\* first displayed for that schema, whatever dialect has been picked since.
C17_PrismaPreambleIgnoresDialect ==
    (selectedTab = "prisma" /\ ~rendered.placeholder) =>
        /\ StartsWith(rendered.code,
              "// Prisma Schema\n\ngenerator client {\n  provider = \"prisma-client-js\"\n}\n\n"
              \o "datasource db {\n  provider = \"postgresql\"\n"
              \o "  url      = env(\"DATABASE_URL\")\n}\n\nmodel ")
        /\ Occurrences(rendered.code, "generator client {") = {1 + Len("// Prisma Schema\n\n")}
        /\ Cardinality(Occurrences(rendered.code, "datasource db {")) = 1
        /\ prismaCode.seen
        /\ rendered.code = prismaCode.code

C17_Witness ==
    /\ selectedTab = "prisma"
    /\ ~rendered.placeholder
    /\ prismaCode.seen
    /\ prismaCode.dialect = "postgresql"
    /\ selectedDialect = "sqlite"
    /\ Len(schema.tables) = 2

(***************************************************************************)
(* The API and the store.                                                  *)
(***************************************************************************)
GenerateSucceeded ==
    response.route = "POST /api/generate-schema" /\ response.status = 200

\* the store holds the generated schema under the returned projectId, for
\* the caller, with the explanation and the five code formats
SavedForCaller ==
    \E d \in projects, r \in response.result :
        /\ d._id = response.projectId
        /\ d.userId = response.caller
        /\ d.schema = {r.schema}
        /\ d.explanation = r.explanation
        /\ d.codeFormats = {generateAllCodeFormats(r.schema)}

\* C19: whenever POST /api/generate-schema answers with success, the store
\* holds a project document owned by the caller that contains the
\* generated schema, its explanation and the five code formats, and the
\* projectId of the answer is the _id of that document, whether the
\* request sent a projectId or not.
C19_GeneratedSchemaSaved == GenerateSucceeded => SavedForCaller

\* the same for the requests that send no projectId, or the _id of a
\* document of the caller
C19_SavedWhenProjectIdMatches ==
    (GenerateSucceeded /\ (response.sent = "" \/ Owned(response.sent, response.caller) # {}))
        => SavedForCaller

C19_SucceededUnsaved ==
    /\ GenerateSucceeded
    /\ response.sent # ""
    /\ ~SavedForCaller

\* every document in an answer belongs to the caller, the list is all of
\* the caller's documents, and a request without identity is answered 401
\* before the store or the AI service is touched
ScopedAnswer ==
    /\ \A d \in response.docs : d.userId = response.caller
    /\ (response.route = "GET /api/projects" /\ response.status = 200) =>
            response.docs = {d \in projects : d.userId = response.caller}
    /\ (response.route # "none" /\ response.caller = NoUser) =>
            /\ response.status = 401
            /\ response.docs = {}
            /\ response.result = {}
            /\ ~response.readStore
            /\ ~response.wroteStore
            /\ ~response.calledAI

\* every document a request adds, changes or removes belongs to the caller
ScopedWrite ==
    \A d \in (projects \ projects') \cup (projects' \ projects) :
        d.userId = response'.caller /\ response'.caller # NoUser

\* C20: the list, get, update and delete handlers of /api/projects and the
\* update path of /api/generate-schema return, modify and delete only
\* documents whose userId is the caller's; a request without identity gets
\* 401 and neither reads nor writes the store nor calls the AI service.
C20_CallerScoped == [](ScopedAnswer) /\ [][ScopedWrite]_vars

\* a caller asked for a document of another user and was told there is none
C20_Witness ==
    /\ response.route = "GET /api/projects/[id]"
    /\ response.status = 404
    /\ \E d \in projects : d._id = response.sent /\ d.userId # response.caller
    /\ \E d \in projects : d.userId = response.caller

C20_WitnessUpdatePath ==
    /\ GenerateSucceeded
    /\ \E d \in projects : d._id = response.sent /\ d.userId # response.caller

C20_WitnessUnauthorized ==
    /\ response.route = "DELETE /api/projects/[id]"
    /\ response.caller = NoUser
    /\ \E d \in projects : d._id = response.sent

(***************************************************************************)
(* The two ScriptsBuilder variants.                                        *)
(***************************************************************************)
\* C21: the emitters copied into the first ScriptsBuilder variant equal the
\* shared engine: for the schema of the view and every dialect d the
\* inline generateSQL equals generateSQL(schema, d), the inline
\* generatePrismaSchema equals generatePrismaSchema(schema), the inline
\* generateDrizzleSchema equals generateDrizzleSchema(schema), and what the
\* first variant displays is what the second displays for the same tab,
\* dialect and schema.
C21_InlineEqualsEngine ==
    rendered.mounted =>
        /\ \A d \in Dialects : inline_generateSQL(schema, d) = generateSQL(schema, d)
        /\ inline_generatePrismaSchema(schema) = generatePrismaSchema(schema)
        /\ inline_generateDrizzleSchema(schema) = generateDrizzleSchema(schema)
        /\ rendered = Render(schema, selectedTab, selectedDialect)

C21_Witness ==
    /\ rendered.mounted
    /\ selectedTab = "sql"
    /\ selectedDialect = "sqlite"
    /\ IsOneColumn(schema)
    /\ TheColumn.type = "constructor"
    /\ Contains(rendered.code, "function Object()")

(***************************************************************************)
(* Prisma model blocks.                                                    *)
(***************************************************************************)
\* the Prisma text after the preamble
PrismaBody(text) == DropPrefix(text, PrismaPreamble)

\* a block as "model <Name> {", newline, the field lines joined by
\* newlines, newline, "}", newline
BlockAsJoined(table) ==
    "model " \o WrittenTableName("prisma", table.name) \o " {\n"
    \o Join([k \in 1..Len(table.columns) |-> ExpectedPrismaField(table.columns[k])], "\n")
    \o "\n}\n"

\* C22 (as claimed): every table, also one with zero columns, is emitted
\* as "model <Name> {", newline, its field lines joined by newlines,
\* newline, "}", newline, and consecutive blocks are separated by exactly
\* one blank line.
C22_ModelBlockAsJoined ==
    \A a \in PrismaArtifacts :
        ~NoTables(schema) =>
            PrismaBody(a.text) =
                Join([i \in 1..Len(schema.tables) |-> BlockAsJoined(schema.tables[i])], "\n")

\* the lines of a block: the header, one line per field, the closing brace
ExpectedBlockLines(table) ==
    <<"model " \o WrittenTableName("prisma", table.name) \o " {">>
    \o [k \in 1..Len(table.columns) |-> ExpectedPrismaField(table.columns[k])]
    \o <<"}">>

RECURSIVE ExpectedPrismaLinesFrom(_, _)
ExpectedPrismaLinesFrom(tables, i) ==
    IF i > Len(tables) THEN <<>>
    ELSE ExpectedBlockLines(tables[i]) \o <<"">> \o ExpectedPrismaLinesFrom(tables, i + 1)

\* C22 (amended): every table is emitted as the line "model <Name> {", one
\* line per field, and the line "}"; a table with zero columns has the
\* closing brace directly under its header, with no empty line between
\* them; consecutive blocks are separated by exactly one blank line and
\* the text ends with the newline of the last closing brace.
C22_ModelBlockLayout ==
    \A a \in PrismaArtifacts :
        ~NoTables(schema) =>
            /\ Lines(PrismaBody(a.text)) = ExpectedPrismaLinesFrom(schema.tables, 1)
            /\ EndsWith(a.text, "}\n")
            /\ ~EndsWith(a.text, "\n\n")
            /\ Cardinality(Occurrences(PrismaBody(a.text), "}\n\nmodel ")) = Len(schema.tables) - 1
            /\ ~Contains(PrismaBody(a.text), "{\n\n")

C22_Witness ==
    /\ out.op = "generatePrismaSchema"
    /\ Len(schema.tables) = 2
    /\ Len(schema.tables[1].columns) = 0
    /\ Len(schema.tables[2].columns) = 2
    /\ StartsWith(PrismaBody(out.ret), "model Users {\n}\n\nmodel Orders {\n  ")

(***************************************************************************)
(* The Drizzle import line.                                                *)
(***************************************************************************)
\* the text between the first occurrence of open and the next close
Between(s, open, close) ==
    LET rest == SubSeq(s, IndexOf(s, open) + Len(open), Len(s)) IN Before(rest, close)

StripLeadingSpace(s) == IF StartsWith(s, " ") THEN DropPrefix(s, " ") ELSE s

\* the names listed between the braces of the import line
ImportedNames(text) ==
    LET names == Split(Between(Lines(text)[1], "import { ", " } from"), ",")
    IN  {StripLeadingSpace(names[k]) : k \in 1..Len(names)}

IsTableLine(line) == StartsWith(line, "export const ")

\* the functions called in the table definitions: the callee of each
\* "export const" line and the builder that starts each column chain
CalledFunctions(text) ==
    LET lines == Lines(text) IN
    {Between(lines[k], " = ", "(") : k \in {j \in 1..Len(lines) : IsTableLine(lines[j])}}
    \cup {Between(lines[k], ": ", "(") : k \in {j \in 1..Len(lines) : IsColumnLine(lines[j])}}

\* C23: for a schema with tables the Drizzle text starts with the one
\* fixed import line, followed by a blank line, and every function called
\* in the table definitions (pgTable and the builder of every column) is
\* among the names that line imports.
C23_ImportCoversBuilders ==
    \A a \in DrizzleArtifacts :
        ~NoTables(schema) =>
            /\ StartsWith(a.text,
                    "import { pgTable, serial, varchar, integer, boolean, timestamp, decimal, jsonb }"
                    \o " from 'drizzle-orm/pg-core';\n\nexport const ")
            /\ Cardinality(Occurrences(a.text, "import ")) = 1
            /\ "pgTable" \in CalledFunctions(a.text)
            /\ CalledFunctions(a.text) \subseteq ImportedNames(a.text)

C23_Witness ==
    /\ out.op = "generateDrizzleSchema"
    /\ IsOneColumn(schema)
    /\ TheColumn.type = "uuid"
    /\ CalledFunctions(out.ret) = {"pgTable", "varchar"}
    /\ ImportedNames(out.ret) =
            {"pgTable", "serial", "varchar", "integer", "boolean", "timestamp", "decimal", "jsonb"}

(***************************************************************************)
(* generateSchemaWithAI (src/lib/ai-service.ts): the provider and the key  *)
(* are read from the environment, the candidate models are listed, and     *)
(* the models are attempted one after the other.  An unset environment     *)
(* variable is the empty string, which every test of the source treats     *)
(* like an unset one.  The ids and timestamps the function adds to its     *)
(* result come from the clock and are left out.                            *)
(***************************************************************************)
Envs ==
    [AI_PROVIDER : {"", "gemini", "openai", "claude"},
     AI_API_KEY : {"", "key"},
     GEMINI_MODEL : {"", "  ", " gemini-1.5-pro ", "models/gemini-2.0-flash", "custom"},
     GEMINI_FALLBACK_MODELS : {"", "custom, ,gemini-1.5-pro,models/custom"}]

NonEmpty(s) == Len(s) > 0

\* the elements of seq at the positions of idx, in order
AtPositions(seq, idx) ==
    [k \in 1..Cardinality(idx) |->
        seq[CHOOSE i \in idx : Cardinality({j \in idx : j < i}) = k - 1]]

\* filter((value, index, self) => self.indexOf(value) === index)
FirstOccurrences(seq) ==
    AtPositions(seq, {i \in 1..Len(seq) : \A j \in 1..(i - 1) : seq[j] # seq[i]})

preferredModel(env) ==
    IF env.GEMINI_MODEL # "" /\ Len(Trim(env.GEMINI_MODEL)) > 0
        THEN Trim(env.GEMINI_MODEL) ELSE "gemini-2.0-flash"

configuredFallbacks(env) ==
    IF env.GEMINI_FALLBACK_MODELS = "" THEN <<>>
    ELSE LET entries == Split(env.GEMINI_FALLBACK_MODELS, ",")
         IN  SelectSeq([k \in 1..Len(entries) |-> Trim(entries[k])], NonEmpty)

normalizeModelName(modelName) ==
    IF StartsWith(modelName, "models/") THEN modelName ELSE "models/" \o modelName

BuiltInModels ==
    <<"gemini-2.0-flash", "gemini-1.5-flash-latest", "gemini-1.5-flash-001",
      "gemini-1.5-pro", "gemini-1.0-pro">>

\* a candidate list that keeps repeated names
fallbackModels_Repeating(env) ==
    LET names == <<preferredModel(env)>> \o configuredFallbacks(env) \o BuiltInModels
    IN  [k \in 1..Len(names) |-> normalizeModelName(names[k])]

fallbackModels(env) ==
    LET names == <<preferredModel(env)>> \o configuredFallbacks(env) \o BuiltInModels
    IN  FirstOccurrences([k \in 1..Len(names) |-> normalizeModelName(names[k])])

\* what an attempt may reject with: an Error or another thrown value, its
\* message (its string conversion when it is no Error), and the three
\* places a status is looked for; 0 stands for an absent status
NoStatus == 0

StatusCodes == {400, 401, 403, 404, 408, 425, 429, 500, 502, 503, 504}

ErrorMessages == {"Quota exceeded", "Model Not Found"}

AttemptErrors ==
    [isError : {TRUE}, message : ErrorMessages, statusCode : StatusCodes \cup {NoStatus},
     status : {NoStatus}, causeStatus : {NoStatus}]
    \cup [isError : {TRUE}, message : {"Quota exceeded"}, statusCode : {NoStatus, 429, 400},
          status : {400, 404, 429}, causeStatus : {NoStatus}]
    \cup [isError : {TRUE}, message : {"Quota exceeded"}, statusCode : {NoStatus},
          status : {NoStatus}, causeStatus : {401, 404, 503}]
    \cup [isError : {FALSE}, message : {"timeout", "Not Found"}, statusCode : {NoStatus},
          status : {NoStatus}, causeStatus : {NoStatus}]

\* what an attempt may resolve with: an object the zod schema accepts
AiObjects ==
    {[tables |-> <<[name |-> "users", columns |-> <<CreatedAtColumn>>]>>,
      summary |-> "Users.", explanation |-> "Use PostgreSQL."],
     [tables |-> <<>>, summary |-> "Nothing to store.", explanation |-> "No tables needed."]}

RECURSIVE ToLowerCase(_)
ToLowerCase(s) ==
    IF s = "" THEN ""
    ELSE LET ch == SubSeq(s, 1, 1)
             lower == IF \E i \in 1..Len(UpperCaseLetters) : UpperCaseLetters[i] = ch
                        THEN LowerCaseLetters[CHOOSE i \in 1..Len(UpperCaseLetters) :
                                                UpperCaseLetters[i] = ch]
                        ELSE ch
         IN  lower \o ToLowerCase(SubSeq(s, 2, Len(s)))

\* err.statusCode ?? err.status ?? err.cause?.status
maybeStatus(err) ==
    IF err.statusCode # NoStatus THEN err.statusCode
    ELSE IF err.status # NoStatus THEN err.status
    ELSE err.causeStatus

transientStatuses == {NoStatus, 408, 425, 429, 500, 502, 503, 504}

isMissingModel(err) ==
    maybeStatus(err) = 404 \/ Contains(ToLowerCase(err.message), "not found")

\* a catch block that goes on to the next model after every error
Rethrown_Never(err) == FALSE

\* the catch block throws the error again instead of going on
Rethrown(err) == maybeStatus(err) \notin transientStatuses /\ ~isMissingModel(err)

\* the Error of the outer catch block
Wrapped(isError, message) ==
    "Failed to generate schema with AI. Please check your API configuration and try again."
    \o (IF isError THEN "\nDetails: " \o message ELSE "")

\* the Error thrown after the loop when no attempt gave an object
Unavailable(lastError) ==
    "The AI service is currently unavailable. Please wait a moment and try again."
    \o (IF lastError.isError THEN "\nLast error: " \o lastError.message ELSE "")

\* the value returned for the object of an attempt
TransformObject(object) ==
    [tables |-> object.tables, description |-> object.summary,
     explanation |-> object.explanation]

AiIdle(env) ==
    [phase |-> "idle", env |-> env, models |-> <<>>, tried |-> <<>>, lastError |-> {},
     object |-> {}, returned |-> {}, thrown |-> ""]

AiThrows(call, isError, message) ==
    [call EXCEPT !.phase = "threw", !.thrown = Wrapped(isError, message)]

InitAi ==
    /\ schema = NullSchema
    /\ out = NoCall
    /\ first = NoFirst
    /\ ViewUnmounted
    /\ ApiAtRest
    /\ aiCall \in {AiIdle(env) : env \in Envs}
    /\ chat = NoChat
    /\ page = NoPage

\* the call up to the first attempt
CallGenerateSchemaWithAI ==
    /\ aiCall.phase = "idle"
    /\ LET provider == IF aiCall.env.AI_PROVIDER = "" THEN "gemini" ELSE aiCall.env.AI_PROVIDER
       IN  aiCall' =
            IF provider = "gemini" THEN
                IF aiCall.env.AI_API_KEY = ""
                    THEN AiThrows(aiCall, TRUE,
                            "AI_API_KEY environment variable is required for Gemini provider")
                ELSE [aiCall EXCEPT !.phase = "loop", !.models = fallbackModels(aiCall.env)]
            ELSE IF provider = "openai"
                THEN AiThrows(aiCall, TRUE,
                        "OpenAI provider not yet configured. "
                        \o "Please use 'gemini' as the AI_PROVIDER.")
            ELSE AiThrows(aiCall, TRUE, "Unsupported AI provider: " \o provider)

\* the attempt on the next model resolves: the loop is left and the
\* transformed object returned
AttemptResolves(object) ==
    /\ aiCall.phase = "loop"
    /\ Len(aiCall.tried) < Len(aiCall.models)
    /\ aiCall' = [aiCall EXCEPT !.phase = "returned",
                                !.tried = Append(@, aiCall.models[Len(@) + 1]),
                                !.object = {object},
                                !.returned = {TransformObject(object)}]

\* the attempt on the next model rejects: the error is thrown on, or the
\* loop goes on, or the list is exhausted
AttemptRejects(err) ==
    /\ aiCall.phase = "loop"
    /\ Len(aiCall.tried) < Len(aiCall.models)
    /\ LET next == [aiCall EXCEPT !.tried = Append(@, aiCall.models[Len(@) + 1]),
                                  !.lastError = {err}]
       IN  aiCall' =
            IF Rethrown(err) THEN AiThrows(next, err.isError, err.message)
            ELSE IF Len(next.tried) < Len(next.models) THEN next
            ELSE AiThrows(next, TRUE, Unavailable(err))

NextAi ==
    \/ CallGenerateSchemaWithAI /\ UNCHANGED <<engineVars, viewVars, apiVars, chat, page>>
    \/ \E object \in AiObjects :
            AttemptResolves(object) /\ UNCHANGED <<engineVars, viewVars, apiVars, chat, page>>
    \/ \E err \in AttemptErrors :
            AttemptRejects(err) /\ UNCHANGED <<engineVars, viewVars, apiVars, chat, page>>

SpecAi == InitAi /\ [][NextAi]_vars

\* the last model attempted and the errors seen before and after a step
LastTried(call) == call.tried[Len(call.tried)]

AttemptMade == aiCall'.tried # aiCall.tried

\* an error after which the next model may be tried: no status or a
\* transient one, or a missing model (message compared in lower case)
MayTryNext(err) ==
    \/ maybeStatus(err) \in {NoStatus, 408, 425, 429, 500, 502, 503, 504}
    \/ maybeStatus(err) = 404
    \/ Contains(ToLowerCase(err.message), "not found")

\* the preferred model as the candidate list names it
PreferredCandidate(env) ==
    LET name == IF Trim(env.GEMINI_MODEL) = "" THEN "gemini-2.0-flash"
                ELSE Trim(env.GEMINI_MODEL)
    IN  IF StartsWith(name, "models/") THEN name ELSE "models/" \o name

\* C24: with the gemini provider the candidate models are attempted in list
\* order, the preferred model first and no model twice; no attempt follows
\* a successful one; after a failed attempt the next model is tried only
\* when the error was transient or a missing-model error, and any other
\* error ends the call at once.
C24_FallbackOrder ==
    [][AttemptMade =>
        /\ aiCall.phase = "loop"
        /\ aiCall.object = {}
        /\ aiCall'.tried = Append(aiCall.tried, aiCall.models[Len(aiCall.tried) + 1])
        /\ \A k \in 1..Len(aiCall.tried) : aiCall.tried[k] # LastTried(aiCall')
        /\ Len(aiCall.tried) = 0 => LastTried(aiCall') = PreferredCandidate(aiCall.env)
        /\ \A err \in aiCall.lastError : MayTryNext(err)
        /\ aiCall'.object # {} => aiCall'.phase = "returned"
        /\ (aiCall'.object = {} /\ \E err \in aiCall'.lastError : ~MayTryNext(err))
                => aiCall'.phase = "threw"
    ]_vars

C24_Witness ==
    /\ aiCall.phase = "returned"
    /\ aiCall.env.GEMINI_MODEL = "custom"
    /\ aiCall.env.GEMINI_FALLBACK_MODELS # ""
    /\ aiCall.tried = <<"models/custom", "models/gemini-1.5-pro", "models/gemini-2.0-flash">>
    /\ Len(aiCall.models) = 6
    /\ \E err \in aiCall.lastError : maybeStatus(err) = 404

\* the number of distinct candidate models of an environment
DistinctCandidates(env) ==
    Cardinality({normalizeModelName(n) :
        n \in {preferredModel(env)}
            \cup {configuredFallbacks(env)[k] : k \in 1..Len(configuredFallbacks(env))}
            \cup {BuiltInModels[k] : k \in 1..Len(BuiltInModels)}})

AiSettled(call) == call.phase \in {"returned", "threw"}

\* every step of the call is its start or one more attempt, and a settled
\* call takes no step: the attempts left decrease until the call settles
AiProgress ==
    /\ ~AiSettled(aiCall)
    /\ \/ aiCall.phase = "idle" /\ aiCall'.tried = <<>> /\ aiCall'.phase \in {"loop", "threw"}
       \/ aiCall.phase = "loop" /\ Len(aiCall'.tried) = Len(aiCall.tried) + 1
    /\ (aiCall'.phase = "loop" => Len(aiCall'.tried) < Len(aiCall'.models))

\* attempts are bounded by the distinct candidates; the call returns iff
\* an attempt succeeded and every error before it allowed a further try;
\* otherwise it throws the wrapped Error
AttemptsAndOutcome ==
    /\ Len(aiCall.tried) <= DistinctCandidates(aiCall.env)
    /\ aiCall.phase = "loop" => Len(aiCall.tried) < Len(aiCall.models)
    /\ aiCall.phase = "returned" <=> aiCall.object # {}
    /\ aiCall.phase = "returned" =>
            /\ \A err \in aiCall.lastError : MayTryNext(err)
            /\ aiCall.thrown = ""
    /\ aiCall.phase = "threw" =>
            /\ aiCall.returned = {}
            /\ StartsWith(aiCall.thrown, "Failed to generate schema with AI.")
            /\ \/ aiCall.tried = <<>>
               \/ Len(aiCall.tried) = Len(aiCall.models)
               \/ \E err \in aiCall.lastError : ~MayTryNext(err)
    /\ (aiCall.phase = "threw" /\ aiCall.tried = <<>>) =>
            (aiCall.env.AI_API_KEY = "" \/ aiCall.env.AI_PROVIDER \notin {"", "gemini"})

C25_WitnessEmptySchema ==
    /\ aiCall.phase = "returned"
    /\ Len(aiCall.tried) = 2
    /\ \E s \in aiCall.returned : Len(s.tables) = 0

\* ------------------------------------------------------------------
\* The chat panel (ExportPanel, and the chat half of the second
\* ScriptsBuilder): a React component holding message, chat, isSending,
\* pendingSchema, showConfirmDialog and isSaving, with the chat persisted
\* in localStorage under a key made from the schema's timestamp.
\*
\* A schema is abbreviated to its content and its timestamp.  A chat
\* message carries, besides role and content, the timestamp of the schema
\* that was current when it was added (under): a history tag, not a field
\* of the program.  History as well are three fields of the panel record:
\* handler (which of handleConfirmSchemaChange and handleCancelSchemaChange
\* ran in the last step, if either), lastCall (the last call of
\* onSchemaChange) and settled (how the last PUT ended).
\* ------------------------------------------------------------------

MaxChat == 2

MaxInFlight == 2

MaxClock == 3

PanelVariants == {"ExportPanel", "ScriptsBuilder"}

ProjectIds == {"", "p1"}

Messages == {"", " ", "add email"}

ProposalContents == {"users+email"}

InitialSchema == [content |-> "users", timestamp |-> 1]

Timestamps == 1..MaxClock

NothingStored == [t \in Timestamps |-> <<>>]

getChatStorageKey(timestamp) == timestamp

loadChatFromStorage(storage, timestamp) == storage[getChatStorageKey(timestamp)]

saveChatToStorage(storage, timestamp, chatHistory) ==
    [storage EXCEPT ![getChatStorageKey(timestamp)] = chatHistory]

ChatMessage(c, role, content) ==
    [role |-> role, content |-> content, under |-> c.schema.timestamp]

\* setChat((c) => [...c, m]) on the mounted instance
AddToChat(c, role, content) ==
    [c EXCEPT !.chat = Append(@, ChatMessage(c, role, content))]

\* the restore effect, which only ExportPanel has, with [schema] as its
\* dependency: an empty chat is replaced by a saved one
RestoreRuns(c, objChanged) ==
    /\ c.props.variant = "ExportPanel"
    /\ objChanged
    /\ c.chat = <<>>
    /\ loadChatFromStorage(c.storage, c.schema.timestamp) # <<>>

\* the effects of one commit, in the order of their declaration and all
\* with the values of the render they belong to: the load effect (on a
\* changed timestamp), the restore effect, the save effect (on a changed
\* chat or timestamp).  setChat takes effect with the next render.
EffectsPass(c, tsChanged, objChanged, chatChanged) ==
    LET T == c.schema.timestamp
        loaded == loadChatFromStorage(c.storage, T)
    IN  [c EXCEPT
            !.chat = IF RestoreRuns(c, objChanged) \/ tsChanged THEN loaded ELSE @,
            !.storage = IF (chatChanged \/ tsChanged) /\ Len(c.chat) > 0
                            THEN saveChatToStorage(@, T, c.chat)
                            ELSE @]

\* the render after a handler's state updates and all that follows from
\* it: the effects of that commit and, when one of them called setChat,
\* the render after it, whose save effect runs on the new chat
Commit(prev, next) ==
    LET tsChanged == next.schema.timestamp # prev.schema.timestamp
        objChanged == next.schema # prev.schema
        chatChanged == next.chat # prev.chat
        after == EffectsPass(next, tsChanged, objChanged, chatChanged)
    IN  IF (RestoreRuns(next, objChanged) \/ tsChanged) /\ Len(after.chat) > 0
            THEN [after EXCEPT !.storage =
                        saveChatToStorage(@, after.schema.timestamp, after.chat)]
            ELSE after

\* the first render of an instance and its effects, which all run
Mount(c) ==
    LET fresh == [c EXCEPT !.message = "", !.chat = <<>>, !.isSending = FALSE,
                           !.pendingSchema = {}, !.showConfirmDialog = FALSE,
                           !.isSaving = FALSE]
        after == EffectsPass(fresh, TRUE, TRUE, TRUE)
    IN  IF Len(after.chat) > 0
            THEN [after EXCEPT !.storage =
                        saveChatToStorage(@, after.schema.timestamp, after.chat)]
            ELSE after

\* the parent's setSchema, which is what onSchemaChange is
onSchemaChange(c, by, s) ==
    [c EXCEPT !.schema = s, !.lastCall = {[by |-> by, arg |-> s]}]

PanelMounted(props) ==
    Mount([phase |-> "mounted", props |-> props, schema |-> InitialSchema,
           message |-> "", chat |-> <<>>, isSending |-> FALSE,
           pendingSchema |-> {}, showConfirmDialog |-> FALSE, isSaving |-> FALSE,
           storage |-> NothingStored, inFlight |-> 0, save |-> {},
           db |-> InitialSchema, clock |-> 1,
           handler |-> "", lastCall |-> {}, settled |-> {}])

PanelProps == [variant : PanelVariants, projectId : ProjectIds, canEdit : BOOLEAN]

InitChat ==
    /\ schema = NullSchema
    /\ out = NoCall
    /\ first = NoFirst
    /\ ViewUnmounted
    /\ ApiAtRest
    /\ aiCall = NoAi
    /\ chat \in {PanelMounted(props) : props \in PanelProps}
    /\ page = NoPage

\* the message box's onChange
SetMessage(m) ==
    /\ m # chat.message
    /\ chat' = [chat EXCEPT !.message = m, !.handler = ""]

\* handleSend up to its await
handleSend(c) ==
    IF Trim(c.message) = "" THEN c
    ELSE [AddToChat(c, "user", Trim(c.message)) EXCEPT
            !.message = "", !.isSending = TRUE, !.inFlight = @ + 1]

\* the Send button, disabled while isSending or while the message is blank
ClickSend ==
    /\ ~chat.isSending
    /\ Trim(chat.message) # ""
    /\ Len(chat.chat) < MaxChat
    /\ chat.inFlight < MaxInFlight
    /\ chat' = Commit(chat, [handleSend(chat) EXCEPT !.handler = ""])

\* Enter without Shift in the message box, which calls handleSend
PressEnter ==
    /\ Len(chat.chat) < MaxChat
    /\ chat.inFlight < MaxInFlight
    /\ chat' = Commit(chat, [handleSend(chat) EXCEPT !.handler = ""])

\* mutant: the proposal is applied when it arrives
ProposalReceived_AppliedAtOnce(c, s) ==
    IF c.props.canEdit
        THEN onSchemaChange(c, "handleSend", s)
        ELSE c

\* what handleSend does with data.updatedSchema
ProposalReceived(c, s) ==
    IF c.props.canEdit
        THEN [c EXCEPT !.pendingSchema = {s}, !.showConfirmDialog = TRUE]
        ELSE c

\* the request to /api/schema-chat is answered with ok: the rest of
\* handleSend's try block and its finally
ReplyArrives(hasReply, content) ==
    /\ chat.inFlight > 0
    /\ hasReply => Len(chat.chat) < MaxChat
    /\ content # "" => chat.clock < MaxClock
    /\ LET c1 == IF hasReply THEN AddToChat(chat, "assistant", "reply") ELSE chat
           c2 == IF content = "" THEN c1
                 ELSE ProposalReceived([c1 EXCEPT !.clock = @ + 1],
                        [content |-> content, timestamp |-> chat.clock + 1])
       IN  chat' = Commit(chat, [c2 EXCEPT !.isSending = FALSE, !.inFlight = @ - 1,
                                           !.handler = ""])

\* the request is answered with not ok, or fetch rejects: the catch block
\* and the finally
RequestFails ==
    /\ chat.inFlight > 0
    /\ Len(chat.chat) < MaxChat
    /\ chat' = Commit(chat,
            [AddToChat(chat, "assistant",
                "Sorry, I couldn't process that request. Please try again.")
             EXCEPT !.isSending = FALSE, !.inFlight = @ - 1, !.handler = ""])

\* 'Apply Changes' in the dialog: handleConfirmSchemaChange up to its
\* await, or to its end when there is no projectId
ClickApply ==
    /\ chat.showConfirmDialog
    /\ ~chat.isSaving
    /\ LET closed == [chat EXCEPT !.showConfirmDialog = FALSE, !.pendingSchema = {},
                                  !.handler = "handleConfirmSchemaChange"]
       IN  IF chat.pendingSchema = {} \/ ~chat.props.canEdit
                THEN chat' = closed
           ELSE LET pending == CHOOSE p \in chat.pendingSchema : TRUE
                IN  IF chat.props.projectId # ""
                        THEN /\ chat.save = {}
                             /\ chat.clock < MaxClock
                             /\ chat' = [chat EXCEPT
                                    !.isSaving = TRUE,
                                    !.clock = @ + 1,
                                    !.save = {[pending |-> pending,
                                               updated |-> [pending EXCEPT
                                                    !.timestamp = chat.clock + 1],
                                               orphan |-> FALSE]},
                                    !.handler = "handleConfirmSchemaChange"]
                        ELSE /\ Len(chat.chat) < MaxChat
                             /\ chat' = Commit(chat,
                                    [AddToChat(onSchemaChange(closed,
                                                "handleConfirmSchemaChange", pending),
                                            "assistant",
                                            "Schema changes have been applied successfully!")
                                     EXCEPT !.handler = "handleConfirmSchemaChange"])

\* where handleConfirmSchemaChange goes on when the PUT is answered with ok
SaveSucceeded(c, s) ==
    AddToChat(onSchemaChange([c EXCEPT !.db = s.updated],
                    "handleConfirmSchemaChange", s.updated),
        "assistant", "Schema changes have been applied and saved to your project!")

\* where it goes on when the PUT is answered with not ok or fetch rejects
SaveFailed(c, s) ==
    AddToChat(c, "assistant",
        "Failed to save schema changes to database. "
        \o "The changes were applied locally but not saved.")

\* the PUT to /api/projects/<id> settles: the rest of
\* handleConfirmSchemaChange.  The state updates of an instance that was
\* unmounted meanwhile are lost; the call of onSchemaChange is not.
SaveResponds(ok) ==
    /\ chat.save # {}
    /\ LET s == CHOOSE r \in chat.save : TRUE
           base == [chat EXCEPT !.save = {},
                                !.handler = "handleConfirmSchemaChange",
                                !.settled = {ok}]
       IN  IF s.orphan
                THEN chat' = Commit(chat,
                        IF ok THEN onSchemaChange([base EXCEPT !.db = s.updated],
                                        "handleConfirmSchemaChange", s.updated)
                              ELSE base)
           ELSE /\ Len(chat.chat) < MaxChat
                /\ chat' = Commit(chat,
                        [(IF ok THEN SaveSucceeded(base, s) ELSE SaveFailed(base, s))
                         EXCEPT !.isSaving = FALSE, !.showConfirmDialog = FALSE,
                                !.pendingSchema = {}])

\* 'Cancel' in the dialog: handleCancelSchemaChange
ClickCancel ==
    /\ chat.showConfirmDialog
    /\ ~chat.isSaving
    /\ Len(chat.chat) < MaxChat
    /\ chat' = Commit(chat,
            [AddToChat(chat, "assistant",
                "Schema changes were cancelled. You can continue asking questions "
                \o "or request different changes.")
             EXCEPT !.showConfirmDialog = FALSE, !.pendingSchema = {},
                    !.handler = "handleCancelSchemaChange"])

\* the dialog's onOpenChange(false), which is setShowConfirmDialog
DismissDialog ==
    /\ chat.showConfirmDialog
    /\ chat' = [chat EXCEPT !.showConfirmDialog = FALSE, !.handler = ""]

\* the panel is unmounted and mounted again (a change of tab and back):
\* requests of the old instance are answered into nothing
Remount ==
    /\ chat' = Mount([chat EXCEPT !.inFlight = 0,
                                  !.save = {[r EXCEPT !.orphan = TRUE] : r \in @},
                                  !.handler = ""])

\* the parent renders the panel with another schema: the stored one of the
\* project, or the one the session began with
SetSchemaProp(s) ==
    /\ s # chat.schema
    /\ chat' = Commit(chat, [chat EXCEPT !.schema = s, !.handler = ""])

NextChat ==
    \/ \E m \in Messages :
            SetMessage(m) /\ UNCHANGED <<engineVars, viewVars, apiVars, aiCall, page>>
    \/ ClickSend /\ UNCHANGED <<engineVars, viewVars, apiVars, aiCall, page>>
    \/ PressEnter /\ UNCHANGED <<engineVars, viewVars, apiVars, aiCall, page>>
    \/ \E hasReply \in BOOLEAN, content \in ProposalContents \cup {""} :
            ReplyArrives(hasReply, content)
                /\ UNCHANGED <<engineVars, viewVars, apiVars, aiCall, page>>
    \/ RequestFails /\ UNCHANGED <<engineVars, viewVars, apiVars, aiCall, page>>
    \/ ClickApply /\ UNCHANGED <<engineVars, viewVars, apiVars, aiCall, page>>
    \/ \E ok \in BOOLEAN :
            SaveResponds(ok) /\ UNCHANGED <<engineVars, viewVars, apiVars, aiCall, page>>
    \/ ClickCancel /\ UNCHANGED <<engineVars, viewVars, apiVars, aiCall, page>>
    \/ DismissDialog /\ UNCHANGED <<engineVars, viewVars, apiVars, aiCall, page>>
    \/ Remount /\ UNCHANGED <<engineVars, viewVars, apiVars, aiCall, page>>
    \/ \E s \in {InitialSchema, chat.db} :
            SetSchemaProp(s) /\ UNCHANGED <<engineVars, viewVars, apiVars, aiCall, page>>

SpecChat == InitChat /\ [][NextChat]_vars

\* ---- C26 ----
\* a step in which onSchemaChange is called
SchemaChangeCalled == chat'.lastCall # chat.lastCall

\* the step is the end of handleConfirmSchemaChange without a projectId:
\* the dialog is open on the proposal that is passed on
AppliedFromDialog ==
    /\ chat.showConfirmDialog
    /\ chat'.handler = "handleConfirmSchemaChange"
    /\ chat'.lastCall = {[by |-> "handleConfirmSchemaChange", arg |-> p] :
                            p \in chat.pendingSchema}

\* the step is the end of handleConfirmSchemaChange with a projectId: the
\* proposal passed on is the one whose save was begun, under the timestamp
\* it got then
AppliedAfterSave ==
    /\ chat.save # {}
    /\ chat'.save = {}
    /\ chat'.handler = "handleConfirmSchemaChange"
    /\ \E s \in chat.save :
        /\ s.updated.content = s.pending.content
        /\ chat'.lastCall = {[by |-> "handleConfirmSchemaChange", arg |-> s.updated]}

\* a save is begun only from the open dialog, on the pending proposal
SaveBegun == chat.save = {} /\ chat'.save # {}

CancelStep == chat.showConfirmDialog /\ chat'.handler = "handleCancelSchemaChange"

ApplyOnlyWhenConfirmed ==
    /\ SchemaChangeCalled => AppliedFromDialog \/ AppliedAfterSave
    /\ SaveBegun =>
            /\ chat.showConfirmDialog
            /\ chat'.handler = "handleConfirmSchemaChange"
            /\ \A s \in chat'.save : s.pending \in chat.pendingSchema
    /\ CancelStep =>
            /\ chat'.schema = chat.schema
            /\ chat'.lastCall = chat.lastCall
            /\ chat'.pendingSchema = {}

\* C26: a proposal of the assistant becomes the current schema only by a
\* call of onSchemaChange made from handleConfirmSchemaChange, on the
\* proposal that was pending while the confirmation dialog was open and
\* the user chose 'Apply Changes'; 'Cancel' leaves the current schema as
\* it is and clears the pending proposal
C26_ApplyOnlyWhenConfirmed == [][ApplyOnlyWhenConfirmed]_vars

C26_Witness ==
    /\ chat.phase = "mounted"
    /\ chat.handler = "handleConfirmSchemaChange"
    /\ chat.schema.content = "users+email"
    /\ chat.pendingSchema = {}
    /\ \E call \in chat.lastCall : call.arg = chat.schema

C26_WitnessCancel ==
    /\ chat.phase = "mounted"
    /\ chat.handler = "handleCancelSchemaChange"
    /\ chat.schema = InitialSchema
    /\ chat.lastCall = {}
    /\ chat.pendingSchema = {}

\* ---- C27 ----
\* a step in which the PUT of a confirmed change settles as failed
SaveFailedStep ==
    /\ chat.save # {}
    /\ chat'.save = {}
    /\ chat'.settled = {FALSE}

\* C27 (as claimed): when the save of a confirmed change fails, the
\* current schema becomes the proposed schema and the stored project stays
\* as it was
C27_AppliedLocallyWhenSaveFails ==
    [][SaveFailedStep =>
            \A s \in chat.save : chat'.schema = s.updated /\ chat'.db = chat.db]_vars

\* what the code does instead: neither the current schema nor the stored
\* project changes, while the chat says the changes were applied locally
C27_NothingAppliedWhenSaveFails ==
    [][SaveFailedStep => chat'.schema = chat.schema /\ chat'.db = chat.db]_vars

C27_WitnessSaveFailed ==
    /\ chat.phase = "mounted"
    /\ chat.handler = "handleConfirmSchemaChange"
    /\ chat.settled = {FALSE}
    /\ chat.schema = InitialSchema
    /\ chat.db = InitialSchema
    /\ Len(chat.chat) > 0
    /\ chat.chat[Len(chat.chat)].content =
            "Failed to save schema changes to database. "
            \o "The changes were applied locally but not saved."

\* ---- C28 ----
\* C28 (as claimed): at most one request to /api/schema-chat is in flight
\* at any time
C28_OneRequestInFlight ==
    chat.phase = "mounted" => chat.inFlight <= 1

\* C28 (as claimed, as a step): while isSending is true no request is
\* started
C28_NoRequestWhileSending ==
    [][chat.isSending => chat'.inFlight <= chat.inFlight]_vars

C28_WitnessTwoInFlight ==
    /\ chat.phase = "mounted"
    /\ chat.isSending
    /\ chat.inFlight = 2

\* ---- C29 ----
\* C29 (as claimed): what is stored under the key of timestamp T holds
\* only messages added while the schema with timestamp T was current
C29_ChatKeptPerSchema ==
    chat.phase = "mounted" =>
        \A t \in Timestamps :
            \A i \in 1..Len(chat.storage[t]) : chat.storage[t][i].under = t

\* C29 (as claimed, second half): the chat shown is the chat saved for
\* the current schema
C29_ShownIsSaved ==
    chat.phase = "mounted" =>
        chat.chat = loadChatFromStorage(chat.storage, chat.schema.timestamp)

C29_WitnessCarriedOver ==
    /\ chat.phase = "mounted"
    /\ chat.schema.timestamp = 2
    /\ chat.chat = <<>>
    /\ Len(chat.storage[2]) > 0
    /\ chat.storage[2][1].under = 1

\* ------------------------------------------------------------------
\* The Home page: selectedProjectId, selectedProject, schema and
\* isLoadingProject, the effect that loads the selected project, and the
\* requests to /api/projects/<id> that are in flight.  A schema is
\* abbreviated to a name, the stored projects to the name of their schema.
\* The field failed is history: some request has failed so far.
\* ------------------------------------------------------------------

MaxFetches == 2

NoneSelected == ""

NullPageSchema == ""

Absent == "absent"

PageProjectIds == {"a", "b", "c", "d"}

\* the projects of the user when the page opens: two with a schema, one
\* stored with schema: null, and one id that the next insert will get
StoredAtFirst ==
    [id \in PageProjectIds |->
        IF id = "a" THEN "A" ELSE IF id = "b" THEN "B"
        ELSE IF id = "c" THEN NullPageSchema ELSE Absent]

GeneratedSchemaName == "G"

HomeMounted ==
    [phase |-> "mounted", stored |-> StoredAtFirst,
     selectedProjectId |-> NoneSelected, selectedProject |-> NoneSelected,
     schema |-> NullPageSchema, isLoadingProject |-> FALSE, fetches |-> {},
     failed |-> FALSE]

\* the effect on [selectedProjectId], run after a render in which it changed
LoadProjectEffect(p) ==
    IF p.selectedProjectId # NoneSelected
        THEN [p EXCEPT !.isLoadingProject = TRUE,
                       !.fetches = @ \cup {[id |-> p.selectedProjectId, kind |-> "load"]}]
        ELSE [p EXCEPT !.selectedProject = NoneSelected, !.schema = NullPageSchema]

AfterRender(before, after) ==
    IF after.selectedProjectId # before.selectedProjectId
        THEN LoadProjectEffect(after)
        ELSE after

InitPage ==
    /\ schema = NullSchema
    /\ out = NoCall
    /\ first = NoFirst
    /\ ViewUnmounted
    /\ ApiAtRest
    /\ aiCall = NoAi
    /\ chat = NoChat
    /\ page = HomeMounted

\* the sidebar's onProjectSelect, which is setSelectedProjectId
onProjectSelect(id) ==
    /\ page.stored[id] # Absent
    /\ id # page.selectedProjectId
    /\ Cardinality(page.fetches) < MaxFetches
    /\ [id |-> id, kind |-> "load"] \notin page.fetches
    /\ page' = AfterRender(page, [page EXCEPT !.selectedProjectId = id])

handleNewProject ==
    /\ page' = AfterRender(page,
            [page EXCEPT !.selectedProjectId = NoneSelected,
                         !.selectedProject = NoneSelected,
                         !.schema = NullPageSchema])

\* the generator form hands over the answer of POST /api/generate-schema,
\* which has stored the schema: in the selected project, or else in a new
\* one whose id comes with the answer
handleSchemaGenerated ==
    /\ ~page.isLoadingProject
    /\ Cardinality(page.fetches) < MaxFetches
    /\ IF page.selectedProjectId = NoneSelected
        THEN /\ page.stored["d"] = Absent
             /\ page' = AfterRender(page,
                    [page EXCEPT !.stored["d"] = GeneratedSchemaName,
                                 !.schema = GeneratedSchemaName,
                                 !.selectedProjectId = "d"])
        ELSE /\ [id |-> page.selectedProjectId, kind |-> "reload"] \notin page.fetches
             /\ page' = [page EXCEPT
                    !.stored[page.selectedProjectId] = GeneratedSchemaName,
                    !.schema = GeneratedSchemaName,
                    !.fetches = @ \cup {[id |-> page.selectedProjectId,
                                         kind |-> "reload"]}]

\* a request is answered with the stored project
FetchResolves(f) ==
    /\ f \in page.fetches
    /\ LET data == [id |-> f.id, schema |-> page.stored[f.id]]
           answered == [page EXCEPT !.fetches = @ \ {f}, !.selectedProject = data.id]
       IN  page' =
            IF f.kind = "reload" THEN answered
            ELSE [answered EXCEPT
                    !.schema = IF data.schema # NullPageSchema THEN data.schema ELSE @,
                    !.isLoadingProject = FALSE]

\* a request fails (fetch or res.json() rejects)
FetchRejects(f) ==
    /\ f \in page.fetches
    /\ page' = [page EXCEPT !.fetches = @ \ {f},
                            !.failed = TRUE,
                            !.isLoadingProject = IF f.kind = "load" THEN FALSE ELSE @]

PageFetches == [id : PageProjectIds, kind : {"load", "reload"}]

NextPage ==
    \/ \E id \in PageProjectIds :
            onProjectSelect(id) /\ UNCHANGED <<engineVars, viewVars, apiVars, aiCall, chat>>
    \/ handleNewProject /\ UNCHANGED <<engineVars, viewVars, apiVars, aiCall, chat>>
    \/ handleSchemaGenerated /\ UNCHANGED <<engineVars, viewVars, apiVars, aiCall, chat>>
    \/ \E f \in PageFetches :
            FetchResolves(f) /\ UNCHANGED <<engineVars, viewVars, apiVars, aiCall, chat>>
    \/ \E f \in PageFetches :
            FetchRejects(f) /\ UNCHANGED <<engineVars, viewVars, apiVars, aiCall, chat>>

SpecPage == InitPage /\ [][NextPage]_vars

\* ---- C30 ----
StoredSchemaOfSelected ==
    IF page.selectedProjectId = NoneSelected
        THEN NullPageSchema
        ELSE page.stored[page.selectedProjectId]

\* C30 (as claimed): once no request is in flight, and none has failed,
\* the page's schema is the stored schema of the selected project, and
\* null when that project has none or no project is selected
C30_SchemaOfSelectedProject ==
    page.phase = "mounted" /\ page.fetches = {} /\ ~page.failed =>
        page.schema = StoredSchemaOfSelected

\* the weaker statement that fails as well: once no request is in flight,
\* the schema shown is not that of another stored project
C30_NeverAnotherProjectsSchema ==
    page.phase = "mounted" /\ page.fetches = {} /\ ~page.failed
            /\ page.schema # NullPageSchema =>
        \/ page.schema = StoredSchemaOfSelected
        \/ \A id \in PageProjectIds : page.stored[id] # page.schema

C30_WitnessStaleAnswer ==
    /\ page.phase = "mounted"
    /\ page.fetches = {}
    /\ ~page.failed
    /\ page.selectedProjectId = "b"
    /\ page.selectedProject = "a"
    /\ page.schema = "A"

====
